---- MODULE Spec2Model ----
\* A model of the request-routing pipeline of MyDeskAI: the command
\* recognizer, the tool selection matrix, the tool selector, the decision
\* engine, the agent orchestrator and the error handler.
\*
\* Text is a sequence of one-character strings, so that substring tests,
\* lower-casing, stripping and the regular expressions of the source are
\* computed on characters as the source computes them.  Confidence values
\* are counted in hundredths (0.8 is 80): every value the source computes is
\* a multiple of 0.1 and compares with the thresholds as its exact decimal.
EXTENDS Integers, Sequences, FiniteSets

VARIABLES
  user_input,       \* the request text being processed
  unavailable,      \* tool classes whose constructor raises in this build
  arguments,        \* the arguments of a direct call of a decision function
  raised,           \* the exception being handled
  command_history,  \* CommandRecognizer.command_history
  error_history,    \* ErrorHandler.error_history
  result,           \* the value returned by the last call
  session_state,    \* st.session_state: the API keys and the selected model
  files,            \* the paths of the files that exist
  executed          \* the commands given to subprocess.run, in order

vars ==
  <<user_input, unavailable, arguments, raised, command_history, error_history,
    result, session_state, files, executed>>

-----------------------------------------------------------------------------
\* Text primitives (Python str and re)

UpperLetters ==
  <<"A","B","C","D","E","F","G","H","I","J","K","L","M",
    "N","O","P","Q","R","S","T","U","V","W","X","Y","Z">>

LowerLetters ==
  <<"a","b","c","d","e","f","g","h","i","j","k","l","m",
    "n","o","p","q","r","s","t","u","v","w","x","y","z">>

Digits == {"0","1","2","3","4","5","6","7","8","9"}

\* The characters str.strip() removes and \s matches.
Whitespace == {" ", "\t", "\n", "\r"}

\* The characters \w matches.
WordChars ==
  {UpperLetters[i] : i \in 1..26} \cup {LowerLetters[i] : i \in 1..26}
    \cup Digits \cup {"_"}

IsWordChar(c) == c \in WordChars

\* str.lower() on one character.
LowerChar(c) ==
  IF \E i \in 1..26 : UpperLetters[i] = c
    THEN LowerLetters[CHOOSE i \in 1..26 : UpperLetters[i] = c]
    ELSE c

\* str.lower()
lower(text) == [i \in 1..Len(text) |-> LowerChar(text[i])]

\* str.strip(): drop leading and trailing whitespace.
strip(text) ==
  LET keep == {i \in 1..Len(text) : text[i] \notin Whitespace}
  IN  IF keep = {} THEN <<>>
      ELSE LET first == CHOOSE i \in keep : \A j \in keep : i <= j
               last  == CHOOSE i \in keep : \A j \in keep : j <= i
           IN  SubSeq(text, first, last)

\* str.startswith(prefix)
startswith(text, prefix) ==
  /\ Len(prefix) <= Len(text)
  /\ \A j \in 1..Len(prefix) : text[j] = prefix[j]

\* Does word occur in text at offset i (0-based)?
OccursAt(word, text, i) ==
  /\ i + Len(word) <= Len(text)
  /\ \A j \in 1..Len(word) : text[i + j] = word[j]

\* Python's  word in text  on strings.
Contains(text, word) ==
  \E i \in 0..(Len(text) - Len(word)) : OccursAt(word, text, i)

\* any(word in text for word in words)
ContainsAny(text, words) ==
  \E k \in 1..Len(words) : Contains(text, words[k])

\* re.search(r"\b(a1|a2|...)\s+", text): some alternative starts at a word
\* boundary and is directly followed by at least one whitespace character.
\* Every alternative begins with a word character, so the boundary holds
\* at the start of the text or after a non-word character.
re_search(alternatives, text) ==
  \E k \in 1..Len(alternatives) :
    \E i \in 0..(Len(text) - Len(alternatives[k]) - 1) :
      /\ OccursAt(alternatives[k], text, i)
      /\ (i = 0 \/ ~IsWordChar(text[i]))
      /\ text[i + Len(alternatives[k]) + 1] \in Whitespace

\* len(re.findall(r'\.\w+', text)): \w+ is greedy and never crosses a dot,
\* so there is one match per dot that is followed by a word character.
CountExtensions(text) ==
  Cardinality({i \in 1..(Len(text) - 1) :
                 text[i] = "." /\ IsWordChar(text[i + 1])})

-----------------------------------------------------------------------------
\* command_recognizer.py

\* IntentType values
EXPLICIT_COMMAND == "explicit"
IMPLICIT_REQUEST == "implicit"
AMBIGUOUS == "ambiguous"
INITIALIZATION == "init"
GENERATION == "generation"
DEBUGGING == "debugging"
TESTING == "testing"

\* Python's None
None == "None"

\* The verb groups of the explicit command patterns; every pattern has the
\* shape \b(v1|v2|...)\s+ and is represented by its alternatives.
EXPLICIT_PATTERNS ==
  <<
    \* "create"
    <<
      <<"c","r","e","a","t","e">>, <<"m","a","k","e">>, <<"n","e","w">>,
      <<"a","d","d">>
    >>,
    \* "read"
    <<
      <<"r","e","a","d">>, <<"s","h","o","w">>,
      <<"d","i","s","p","l","a","y">>, <<"v","i","e","w">>,
      <<"o","p","e","n">>, <<"c","a","t">>
    >>,
    \* "write"
    <<
      <<"w","r","i","t","e">>, <<"s","a","v","e">>,
      <<"u","p","d","a","t","e">>, <<"m","o","d","i","f","y">>,
      <<"e","d","i","t">>, <<"c","h","a","n","g","e">>
    >>,
    \* "delete"
    <<
      <<"d","e","l","e","t","e">>, <<"r","e","m","o","v","e">>,
      <<"r","m">>, <<"d","e","l">>
    >>,
    \* "run"
    <<
      <<"r","u","n">>, <<"e","x","e","c","u","t","e">>,
      <<"s","t","a","r","t">>, <<"l","a","u","n","c","h">>
    >>,
    \* "test"
    <<
      <<"t","e","s","t">>, <<"s","p","e","c">>, <<"c","h","e","c","k">>
    >>,
    \* "init"
    <<
      <<"i","n","i","t">>, <<"i","n","i","t","i","a","l","i","z","e">>,
      <<"s","e","t","u","p">>, <<"b","o","o","t","s","t","r","a","p">>
    >>,
    \* "fix"
    <<
      <<"f","i","x">>, <<"d","e","b","u","g">>,
      <<"r","e","p","a","i","r">>, <<"r","e","s","o","l","v","e">>
    >>
  >>

\* The groups of the implicit request patterns, same shape as above.
IMPLICIT_PATTERNS ==
  <<
    \* "need"
    <<
      <<"n","e","e","d">>, <<"w","a","n","t">>,
      <<"r","e","q","u","i","r","e">>,
      <<"s","h","o","u","l","d"," ","h","a","v","e">>
    >>,
    \* "problem"
    <<
      <<"p","r","o","b","l","e","m">>, <<"i","s","s","u","e">>,
      <<"e","r","r","o","r">>, <<"b","u","g">>,
      <<"b","r","o","k","e","n">>,
      <<"n","o","t"," ","w","o","r","k","i","n","g">>
    >>,
    \* "improve"
    <<
      <<"i","m","p","r","o","v","e">>, <<"b","e","t","t","e","r">>,
      <<"o","p","t","i","m","i","z","e">>, <<"e","n","h","a","n","c","e">>,
      <<"r","e","f","a","c","t","o","r">>
    >>,
    \* "add"
    <<
      <<"a","d","d">>, <<"i","m","p","l","e","m","e","n","t">>,
      <<"i","n","c","l","u","d","e">>
    >>
  >>

\* File operation indicators.
FILE_INDICATORS ==
  <<
    <<"f","i","l","e">>, <<"d","i","r","e","c","t","o","r","y">>,
    <<"f","o","l","d","e","r">>, <<"p","a","t","h">>, <<".","p","y">>,
    <<".","j","s">>, <<".","t","s">>, <<".","m","d">>,
    <<".","j","s","o","n">>, <<".","y","a","m","l">>, <<".","y","m","l">>,
    <<".","t","x","t">>, <<".","c","s","v">>, <<"r","e","a","d">>,
    <<"w","r","i","t","e">>, <<"s","a","v","e">>
  >>

\* Code operation indicators.
CODE_INDICATORS ==
  <<
    <<"c","o","d","e">>, <<"f","u","n","c","t","i","o","n">>,
    <<"c","l","a","s","s">>, <<"m","e","t","h","o","d">>,
    <<"c","o","m","p","o","n","e","n","t">>, <<"m","o","d","u","l","e">>,
    <<"p","r","o","g","r","a","m","m","i","n","g">>,
    <<"i","m","p","l","e","m","e","n","t">>,
    <<"g","e","n","e","r","a","t","e">>, <<"c","r","e","a","t","e">>,
    <<"b","u","i","l","d">>
  >>

\* Git operation indicators.
GIT_INDICATORS ==
  <<
    <<"g","i","t">>, <<"c","o","m","m","i","t">>, <<"p","u","s","h">>,
    <<"p","u","l","l">>, <<"b","r","a","n","c","h">>,
    <<"m","e","r","g","e">>, <<"r","e","b","a","s","e">>,
    <<"s","t","a","s","h">>, <<"t","a","g">>, <<"r","e","m","o","t","e">>,
    <<"r","e","p","o","s","i","t","o","r","y">>, <<"r","e","p","o">>
  >>

\* Search indicators.
SEARCH_INDICATORS ==
  <<
    <<"s","e","a","r","c","h">>, <<"f","i","n","d">>, <<"g","r","e","p">>,
    <<"g","l","o","b">>, <<"l","o","o","k"," ","f","o","r">>,
    <<"l","o","c","a","t","e">>, <<"w","h","e","r","e"," ","i","s">>,
    <<"s","h","o","w"," ","m","e">>, <<"l","i","s","t">>
  >>

\* The literal word list of the terminal check in _detect_operation_type.
TERMINAL_INDICATORS ==
  <<
    <<"r","u","n">>, <<"e","x","e","c","u","t","e">>,
    <<"c","o","m","m","a","n","d">>, <<"b","a","s","h">>,
    <<"s","h","e","l","l">>
  >>

\* Keyword lists of the specific-intent checks in _determine_intent.
INIT_KEYWORDS ==
  <<
    <<"i","n","i","t">>, <<"i","n","i","t","i","a","l","i","z","e">>,
    <<"s","e","t","u","p">>
  >>

\* Keywords of the generation check.
GENERATION_KEYWORDS ==
  <<
    <<"c","r","e","a","t","e">>, <<"g","e","n","e","r","a","t","e">>,
    <<"m","a","k","e">>, <<"n","e","w">>
  >>

\* Keywords of the debugging check.
DEBUGGING_KEYWORDS ==
  <<
    <<"f","i","x">>, <<"d","e","b","u","g">>, <<"e","r","r","o","r">>,
    <<"b","u","g">>
  >>

\* Keywords of the testing check.
TESTING_KEYWORDS ==
  <<
    <<"t","e","s","t">>, <<"s","p","e","c">>, <<"c","h","e","c","k">>
  >>

\* _determine_intent with the implicit patterns tested before the explicit
\* ones and the debugging keywords before the other keywords.
determine_intent_reordered(input_lower, starts_with_slash) ==
  IF starts_with_slash THEN EXPLICIT_COMMAND
  ELSE IF \E p \in 1..Len(IMPLICIT_PATTERNS) :
            re_search(IMPLICIT_PATTERNS[p], input_lower)
    THEN IMPLICIT_REQUEST
  ELSE IF \E p \in 1..Len(EXPLICIT_PATTERNS) :
            re_search(EXPLICIT_PATTERNS[p], input_lower)
    THEN EXPLICIT_COMMAND
  ELSE IF ContainsAny(input_lower, DEBUGGING_KEYWORDS) THEN DEBUGGING
  ELSE IF ContainsAny(input_lower, INIT_KEYWORDS) THEN INITIALIZATION
  ELSE IF ContainsAny(input_lower, GENERATION_KEYWORDS) THEN GENERATION
  ELSE IF ContainsAny(input_lower, TESTING_KEYWORDS) THEN TESTING
  ELSE AMBIGUOUS

\* _determine_intent
determine_intent(input_lower, starts_with_slash) ==
  IF starts_with_slash THEN EXPLICIT_COMMAND
  ELSE IF \E p \in 1..Len(EXPLICIT_PATTERNS) :
            re_search(EXPLICIT_PATTERNS[p], input_lower)
    THEN EXPLICIT_COMMAND
  ELSE IF \E p \in 1..Len(IMPLICIT_PATTERNS) :
            re_search(IMPLICIT_PATTERNS[p], input_lower)
    THEN IMPLICIT_REQUEST
  ELSE IF ContainsAny(input_lower, INIT_KEYWORDS) THEN INITIALIZATION
  ELSE IF ContainsAny(input_lower, GENERATION_KEYWORDS) THEN GENERATION
  ELSE IF ContainsAny(input_lower, DEBUGGING_KEYWORDS) THEN DEBUGGING
  ELSE IF ContainsAny(input_lower, TESTING_KEYWORDS) THEN TESTING
  ELSE AMBIGUOUS

\* The number of pattern groups that match: sum(1 for pattern in ... if ...)
CountMatches(patterns, input_lower) ==
  Cardinality({p \in 1..Len(patterns) : re_search(patterns[p], input_lower)})

Min(a, b) == IF a <= b THEN a ELSE b

\* _calculate_confidence without the test for an ambiguous intent.
calculate_confidence_unguarded(input_lower, intent) ==
  IF intent = EXPLICIT_COMMAND THEN 100
  ELSE LET explicit_matches == CountMatches(EXPLICIT_PATTERNS, input_lower)
           implicit_matches == CountMatches(IMPLICIT_PATTERNS, input_lower)
       IN  IF explicit_matches > 0
             THEN Min(80, 60 + explicit_matches * 10)
           ELSE IF implicit_matches > 0
             THEN Min(60, 40 + implicit_matches * 10)
           ELSE 50

\* _calculate_confidence without the cap of the implicit branch.
calculate_confidence_uncapped(input_lower, intent) ==
  IF intent = EXPLICIT_COMMAND THEN 100
  ELSE IF intent = AMBIGUOUS THEN 30
  ELSE LET explicit_matches == CountMatches(EXPLICIT_PATTERNS, input_lower)
           implicit_matches == CountMatches(IMPLICIT_PATTERNS, input_lower)
       IN  IF explicit_matches > 0 THEN Min(80, 60 + explicit_matches * 10)
           ELSE IF implicit_matches > 0 THEN 40 + implicit_matches * 10
           ELSE 50

\* _calculate_confidence with the implicit matches tested before the
\* explicit ones.
calculate_confidence_implicit_first(input_lower, intent) ==
  IF intent = EXPLICIT_COMMAND THEN 100
  ELSE IF intent = AMBIGUOUS THEN 30
  ELSE LET explicit_matches == CountMatches(EXPLICIT_PATTERNS, input_lower)
           implicit_matches == CountMatches(IMPLICIT_PATTERNS, input_lower)
       IN  IF implicit_matches > 0
             THEN Min(60, 40 + implicit_matches * 10)
           ELSE IF explicit_matches > 0
             THEN Min(80, 60 + explicit_matches * 10)
           ELSE 50

\* _calculate_confidence, in hundredths
calculate_confidence(input_lower, intent) ==
  IF intent = EXPLICIT_COMMAND THEN 100
  ELSE IF intent = AMBIGUOUS THEN 30
  ELSE LET explicit_matches == CountMatches(EXPLICIT_PATTERNS, input_lower)
           implicit_matches == CountMatches(IMPLICIT_PATTERNS, input_lower)
       IN  IF explicit_matches > 0
             THEN Min(80, 60 + explicit_matches * 10)
           ELSE IF implicit_matches > 0
             THEN Min(60, 40 + implicit_matches * 10)
           ELSE 50

\* _detect_operation_type with the code indicators tested first.
detect_operation_type_code_first(input_lower) ==
  IF ContainsAny(input_lower, CODE_INDICATORS) THEN "code_operation"
  ELSE IF ContainsAny(input_lower, FILE_INDICATORS) THEN "file_operation"
  ELSE IF ContainsAny(input_lower, GIT_INDICATORS) THEN "git_operation"
  ELSE IF ContainsAny(input_lower, SEARCH_INDICATORS) THEN "search"
  ELSE IF ContainsAny(input_lower, TERMINAL_INDICATORS) THEN "terminal"
  ELSE None

\* _detect_operation_type
detect_operation_type(input_lower) ==
  IF ContainsAny(input_lower, FILE_INDICATORS) THEN "file_operation"
  ELSE IF ContainsAny(input_lower, CODE_INDICATORS) THEN "code_operation"
  ELSE IF ContainsAny(input_lower, GIT_INDICATORS) THEN "git_operation"
  ELSE IF ContainsAny(input_lower, SEARCH_INDICATORS) THEN "search"
  ELSE IF ContainsAny(input_lower, TERMINAL_INDICATORS) THEN "terminal"
  ELSE None

\* _determine_routing with the upper threshold exclusive.
determine_routing_exclusive(confidence) ==
  IF confidence > 80 THEN "execute_immediately"
  ELSE IF confidence >= 50 THEN "confirm_with_preview"
  ELSE "present_options_menu"

\* _determine_routing, confidence in hundredths
determine_routing(confidence) ==
  IF confidence >= 80 THEN "execute_immediately"
  ELSE IF confidence >= 50 THEN "confirm_with_preview"
  ELSE "present_options_menu"

\* The character analysis applied to the text as typed, not stripped.
starts_with_slash_unstripped(text) ==
  startswith(lower(text), <<"/">>)

\* The character analysis of classify_input: starts_with_slash
starts_with_slash(text) ==
  startswith(strip(lower(text)), <<"/">>)

\* The record classify_input builds and returns (without the context
\* summary, which no decision reads).
Classification(text) ==
  LET input_lower == strip(lower(text))
      intent == determine_intent(input_lower, starts_with_slash(text))
      confidence == calculate_confidence(input_lower, intent)
  IN  [ intent |-> intent,
        confidence |-> confidence,
        operation_type |-> detect_operation_type(input_lower),
        input |-> text,
        requires_clarification |-> confidence < 40,
        routing |-> determine_routing(confidence) ]

-----------------------------------------------------------------------------
\* tools_registry.py

\* The import of ShellTool at the top of tools_registry.py succeeded.  The
\* tool selection matrix imports the same name without a guard, so the
\* decision engine only loads in a build where this flag is true.
SHELL_TOOL_AVAILABLE == TRUE

\* TOOL_SETS[...]["tool_classes"]
TOOL_SETS ==
  [ file_operations |->
      <<"FileReadTool", "FileWriterTool", "DirectoryReadTool">>,
    shell_operations |->
      IF SHELL_TOOL_AVAILABLE THEN <<"ShellTool">> ELSE <<>>,
    code_analysis |->
      <<"FileReadTool", "CodeInterpreterTool", "CodeDocsSearchTool",
        "GithubSearchTool">>,
    web_research |->
      <<"SerperDevTool", "WebsiteSearchTool", "ScrapeWebsiteTool",
        "TavilySearchTool">>,
    comprehensive |->
      <<"FileReadTool", "FileWriterTool", "DirectoryReadTool",
        "SerperDevTool", "CodeInterpreterTool", "WebsiteSearchTool",
        "GithubSearchTool">>
        \o (IF SHELL_TOOL_AVAILABLE THEN <<"ShellTool">> ELSE <<>>),
    minimal |-> <<"FileReadTool">> ]

\* get_tool_set: one instance per tool class of the set; a class whose
\* constructor raises is skipped with a warning.  A tool instance is
\* represented by the name of its class.
get_tool_set(set_name, failing) ==
  IF set_name \in DOMAIN TOOL_SETS
    THEN SelectSeq(TOOL_SETS[set_name], LAMBDA tool_class : tool_class \notin failing)
    ELSE <<>>

-----------------------------------------------------------------------------
\* tool_selection_matrix.py

\* TASK_TOOL_MAP (without the free-text "conditions")
TASK_TOOL_MAP ==
  [ create_single_file |->
      [primary |-> "write", secondary |-> <<"bash">>, tool_set |-> "file_operations"],
    create_multiple_files |->
      [primary |-> "write", secondary |-> <<"bash">>, tool_set |-> "file_operations"],
    edit_single_file |->
      [primary |-> "edit", secondary |-> <<"write">>, tool_set |-> "file_operations"],
    edit_multiple_spots |->
      [primary |-> "edit", secondary |-> <<"write">>, tool_set |-> "file_operations"],
    read_file |->
      [primary |-> "read", secondary |-> <<>>, tool_set |-> "file_operations"],
    delete_files |->
      [primary |-> "bash", secondary |-> <<>>, tool_set |-> "shell_operations"],
    search_by_name |->
      [primary |-> "glob", secondary |-> <<"bash">>, tool_set |-> "file_operations"],
    search_by_content |->
      [primary |-> "grep", secondary |-> <<"bash">>, tool_set |-> "file_operations"],
    complex_search |->
      [primary |-> "task", secondary |-> <<"glob", "grep">>, tool_set |-> "comprehensive"],
    generate_code |->
      [primary |-> "write", secondary |-> <<"code_interpreter">>, tool_set |-> "code_analysis"],
    analyze_code |->
      [primary |-> "read", secondary |-> <<"code_interpreter", "github_search">>,
       tool_set |-> "code_analysis"],
    run_commands |->
      [primary |-> "bash", secondary |-> <<>>, tool_set |-> "shell_operations"],
    install_packages |->
      [primary |-> "bash", secondary |-> <<>>, tool_set |-> "shell_operations"],
    test_execution |->
      [primary |-> "bash", secondary |-> <<>>, tool_set |-> "shell_operations"],
    web_research |->
      [primary |-> "web_search", secondary |-> <<"web_fetch">>, tool_set |-> "web_research"],
    documentation_lookup |->
      [primary |-> "web_fetch", secondary |-> <<"web_search">>, tool_set |-> "web_research"],
    git_operations |->
      [primary |-> "bash", secondary |-> <<>>, tool_set |-> "shell_operations"] ]

\* x in seq
InSeq(x, seq) == \E i \in 1..Len(seq) : seq[i] = x

\* select_tools_for_task with the shell tool added whatever the task's
\* capabilities are.
select_tools_for_task_always_shell(task_type, failing, instances_equal) ==
  IF task_type \notin DOMAIN TASK_TOOL_MAP
    THEN get_tool_set("comprehensive", failing)
    ELSE LET task_config == TASK_TOOL_MAP[task_type]
             tools == get_tool_set(task_config.tool_set, failing)
         IN  IF /\ "ShellTool" \notin failing
                /\ ~(InSeq("ShellTool", tools) /\ instances_equal)
               THEN Append(tools, "ShellTool")
               ELSE tools

\* select_tools_for_task.  failing is the set of tool classes whose
\* constructor raises; instances_equal says whether a fresh ShellTool
\* compares equal to one already in the list (the library decides), which
\* is what  shell_tool not in tools  tests.
select_tools_for_task(task_type, failing, instances_equal) ==
  IF task_type \notin DOMAIN TASK_TOOL_MAP
    THEN get_tool_set("comprehensive", failing)
    ELSE LET task_config == TASK_TOOL_MAP[task_type]
             tools == get_tool_set(task_config.tool_set, failing)
         IN  IF /\ (task_config.primary = "bash" \/ InSeq("bash", task_config.secondary))
                /\ "ShellTool" \notin failing
                /\ ~(InSeq("ShellTool", tools) /\ instances_equal)
               THEN Append(tools, "ShellTool")
               ELSE tools

\* get_task_type_from_operation with the terminal verbs tested in another
\* order: test before install and package.
get_task_type_from_operation_test_first(operation_type, intent) ==
  LET intent_lower == lower(intent)
      has(word) == Contains(intent_lower, word)
  IN  IF operation_type = "file_operation" THEN
        IF has(<<"r","e","a","d">>) \/ has(<<"s","h","o","w">>) \/ has(<<"v","i","e","w">>)
          THEN "read_file"
        ELSE IF has(<<"w","r","i","t","e">>) \/ has(<<"c","r","e","a","t","e">>)
                  \/ has(<<"m","a","k","e">>)
          THEN "create_single_file"
        ELSE IF has(<<"e","d","i","t">>) \/ has(<<"m","o","d","i","f","y">>)
                  \/ has(<<"u","p","d","a","t","e">>)
          THEN "edit_single_file"
        ELSE IF has(<<"d","e","l","e","t","e">>) \/ has(<<"r","e","m","o","v","e">>)
          THEN "delete_files"
        ELSE IF has(<<"s","e","a","r","c","h">>) \/ has(<<"f","i","n","d">>)
          THEN "search_by_name"
        ELSE None
      ELSE IF operation_type = "code_operation" THEN
        IF has(<<"c","r","e","a","t","e">>) \/ has(<<"g","e","n","e","r","a","t","e">>)
          THEN "generate_code"
        ELSE IF has(<<"a","n","a","l","y","z","e">>) \/ has(<<"r","e","v","i","e","w">>)
          THEN "analyze_code"
        ELSE None
      ELSE IF operation_type = "git_operation" THEN "git_operations"
      ELSE IF operation_type = "search" THEN
        IF has(<<"g","r","e","p">>) \/ has(<<"c","o","n","t","e","n","t">>)
          THEN "search_by_content"
        ELSE IF has(<<"g","l","o","b">>) \/ has(<<"p","a","t","t","e","r","n">>)
          THEN "search_by_name"
        ELSE "complex_search"
      ELSE IF operation_type = "terminal" THEN
        IF has(<<"t","e","s","t">>) THEN "test_execution"
        ELSE IF has(<<"i","n","s","t","a","l","l">>) \/ has(<<"p","a","c","k","a","g","e">>)
          THEN "install_packages"
        ELSE "run_commands"
      ELSE None

\* get_task_type_from_operation(operation_type, intent)
get_task_type_from_operation(operation_type, intent) ==
  LET intent_lower == lower(intent)
      has(word) == Contains(intent_lower, word)
  IN  IF operation_type = "file_operation" THEN
        IF has(<<"r","e","a","d">>) \/ has(<<"s","h","o","w">>) \/ has(<<"v","i","e","w">>)
          THEN "read_file"
        ELSE IF has(<<"w","r","i","t","e">>) \/ has(<<"c","r","e","a","t","e">>)
                  \/ has(<<"m","a","k","e">>)
          THEN "create_single_file"
        ELSE IF has(<<"e","d","i","t">>) \/ has(<<"m","o","d","i","f","y">>)
                  \/ has(<<"u","p","d","a","t","e">>)
          THEN "edit_single_file"
        ELSE IF has(<<"d","e","l","e","t","e">>) \/ has(<<"r","e","m","o","v","e">>)
          THEN "delete_files"
        ELSE IF has(<<"s","e","a","r","c","h">>) \/ has(<<"f","i","n","d">>)
          THEN "search_by_name"
        ELSE None
      ELSE IF operation_type = "code_operation" THEN
        IF has(<<"c","r","e","a","t","e">>) \/ has(<<"g","e","n","e","r","a","t","e">>)
          THEN "generate_code"
        ELSE IF has(<<"a","n","a","l","y","z","e">>) \/ has(<<"r","e","v","i","e","w">>)
          THEN "analyze_code"
        ELSE None
      ELSE IF operation_type = "git_operation" THEN "git_operations"
      ELSE IF operation_type = "search" THEN
        IF has(<<"g","r","e","p">>) \/ has(<<"c","o","n","t","e","n","t">>)
          THEN "search_by_content"
        ELSE IF has(<<"g","l","o","b">>) \/ has(<<"p","a","t","t","e","r","n">>)
          THEN "search_by_name"
        ELSE "complex_search"
      ELSE IF operation_type = "terminal" THEN
        IF has(<<"i","n","s","t","a","l","l">>) \/ has(<<"p","a","c","k","a","g","e">>)
          THEN "install_packages"
        ELSE IF has(<<"t","e","s","t">>) THEN "test_execution"
        ELSE "run_commands"
      ELSE None

-----------------------------------------------------------------------------
\* tool_selector.py

\* ToolSelector.KEYWORD_MAPPINGS, in insertion order: category and keywords.
KEYWORD_MAPPINGS ==
  <<
    [ category |-> "file_operations", keywords |-> <<
      <<"r","e","a","d">>, <<"f","i","l","e">>, <<"w","r","i","t","e">>,
      <<"d","i","r","e","c","t","o","r","y">>, <<"f","o","l","d","e","r">>,
      <<"s","a","v","e">>, <<"l","o","a","d">>, <<".","p","y">>,
      <<".","m","d">>, <<".","t","x","t">>, <<".","j","s","o","n">>,
      <<".","c","s","v">>, <<".","y","a","m","l">>, <<".","y","m","l">>,
      <<"f","i","l","e","p","a","t","h">>, <<"p","a","t","h">>,
      <<"o","p","e","n">>, <<"c","r","e","a","t","e">>,
      <<"d","e","l","e","t","e">>, <<"e","d","i","t">>
    >> ],
    [ category |-> "shell_operations", keywords |-> <<
      <<"b","a","s","h">>, <<"s","h","e","l","l">>,
      <<"c","o","m","m","a","n","d">>, <<"g","r","e","p">>,
      <<"g","l","o","b">>, <<"t","e","r","m","i","n","a","l">>,
      <<"c","l","i">>, <<"e","x","e","c","u","t","e">>, <<"r","u","n">>,
      <<"f","i","n","d">>, <<"s","e","a","r","c","h">>,
      <<"p","a","t","t","e","r","n">>, <<"r","e","g","e","x">>
    >> ],
    [ category |-> "file_format_search", keywords |-> <<
      <<"s","e","a","r","c","h"," ","i","n">>,
      <<"f","i","n","d"," ","i","n">>, <<"c","s","v">>, <<"p","d","f">>,
      <<"d","o","c","x">>, <<"j","s","o","n">>, <<"x","m","l">>,
      <<"m","a","r","k","d","o","w","n">>, <<"m","d","x">>,
      <<"t","x","t">>, <<"w","i","t","h","i","n"," ","f","i","l","e">>
    >> ],
    [ category |-> "web_search", keywords |-> <<
      <<"s","e","a","r","c","h">>, <<"g","o","o","g","l","e">>,
      <<"f","i","n","d"," ","i","n","f","o","r","m","a","t","i","o","n">>,
      <<"l","o","o","k","u","p">>, <<"r","e","s","e","a","r","c","h">>,
      <<"w","e","b">>, <<"i","n","t","e","r","n","e","t">>,
      <<"o","n","l","i","n","e">>, <<"n","e","w","s">>,
      <<"s","c","h","o","l","a","r">>, <<"j","o","b">>
    >> ],
    [ category |-> "web_scraping", keywords |-> <<
      <<"s","c","r","a","p","e">>, <<"c","r","a","w","l">>,
      <<"e","x","t","r","a","c","t">>, <<"w","e","b","s","i","t","e">>,
      <<"u","r","l">>, <<"h","t","m","l">>,
      <<"w","e","b","p","a","g","e">>, <<"d","o","w","n","l","o","a","d">>,
      <<"f","e","t","c","h">>
    >> ],
    [ category |-> "code_development", keywords |-> <<
      <<"c","o","d","e">>, <<"p","r","o","g","r","a","m","m","i","n","g">>,
      <<"f","u","n","c","t","i","o","n">>, <<"c","l","a","s","s">>,
      <<"g","i","t","h","u","b">>, <<"r","e","p","o">>,
      <<"r","e","p","o","s","i","t","o","r","y">>, <<"d","e","b","u","g">>,
      <<"e","x","e","c","u","t","e"," ","c","o","d","e">>,
      <<"p","y","t","h","o","n">>,
      <<"j","a","v","a","s","c","r","i","p","t">>
    >> ],
    [ category |-> "database", keywords |-> <<
      <<"d","a","t","a","b","a","s","e">>, <<"q","u","e","r","y">>,
      <<"s","q","l">>, <<"m","y","s","q","l">>,
      <<"p","o","s","t","g","r","e","s">>, <<"m","o","n","g","o","d","b">>,
      <<"v","e","c","t","o","r">>,
      <<"s","e","a","r","c","h"," ","d","a","t","a","b","a","s","e">>,
      <<"d","b">>
    >> ],
    [ category |-> "ai_ml_services", keywords |-> <<
      <<"i","m","a","g","e">>, <<"g","e","n","e","r","a","t","e">>,
      <<"d","a","l","l","-","e">>, <<"v","i","s","i","o","n">>,
      <<"r","a","g">>, <<"e","m","b","e","d","d","i","n","g">>,
      <<"l","l","m">>, <<"m","o","d","e","l">>,
      <<"a","i"," ","s","e","r","v","i","c","e">>
    >> ],
    [ category |-> "automation", keywords |-> <<
      <<"a","u","t","o","m","a","t","e">>,
      <<"w","o","r","k","f","l","o","w">>, <<"z","a","p","i","e","r">>,
      <<"c","o","m","p","o","s","i","o">>,
      <<"i","n","t","e","g","r","a","t","i","o","n">>, <<"a","p","i">>,
      <<"w","e","b","h","o","o","k">>
    >> ],
    [ category |-> "media", keywords |-> <<
      <<"y","o","u","t","u","b","e">>, <<"v","i","d","e","o">>,
      <<"c","h","a","n","n","e","l">>, <<"o","c","r">>,
      <<"i","m","a","g","e">>, <<"p","i","c","t","u","r","e">>,
      <<"p","h","o","t","o">>, <<"m","e","d","i","a">>
    >> ]
  >>

\* The keys of TOOL_CATEGORIES in insertion order, each with its name as text.
TOOL_CATEGORIES ==
  <<
    [ category |-> "file_operations", text |->
      <<"f","i","l","e","_","o","p","e","r","a","t","i","o","n","s">> ],
    [ category |-> "shell_operations", text |->
      <<"s","h","e","l","l","_","o","p","e","r","a","t","i","o","n","s">> ],
    [ category |-> "file_format_search", text |->
      <<"f","i","l","e","_","f","o","r","m","a","t","_","s","e","a","r","c","h">> ],
    [ category |-> "web_search", text |->
      <<"w","e","b","_","s","e","a","r","c","h">> ],
    [ category |-> "web_scraping", text |->
      <<"w","e","b","_","s","c","r","a","p","i","n","g">> ],
    [ category |-> "code_development", text |->
      <<"c","o","d","e","_","d","e","v","e","l","o","p","m","e","n","t">> ],
    [ category |-> "database", text |->
      <<"d","a","t","a","b","a","s","e">> ],
    [ category |-> "ai_ml_services", text |->
      <<"a","i","_","m","l","_","s","e","r","v","i","c","e","s">> ],
    [ category |-> "automation", text |->
      <<"a","u","t","o","m","a","t","i","o","n">> ],
    [ category |-> "media", text |->
      <<"m","e","d","i","a">> ],
    [ category |-> "specialized", text |->
      <<"s","p","e","c","i","a","l","i","z","e","d">> ]
  >>

Max(a, b) == IF a >= b THEN a ELSE b

\* The largest value of a function over a non-empty finite domain.
MaxOf(f) == CHOOSE m \in {f[x] : x \in DOMAIN f} : \A x \in DOMAIN f : f[x] <= m

CategoryNames == {TOOL_CATEGORIES[i].category : i \in 1..Len(TOOL_CATEGORIES)}

\* The keyword score of the k-th category of KEYWORD_MAPPINGS.
KeywordScore(k, prompt_lower) ==
  Cardinality({j \in 1..Len(KEYWORD_MAPPINGS[k].keywords) :
                 Contains(prompt_lower, KEYWORD_MAPPINGS[k].keywords[j])})

\* The keyword scores of all categories, by position in KEYWORD_MAPPINGS.
KeywordScores(prompt_lower) ==
  [k \in 1..Len(KEYWORD_MAPPINGS) |-> KeywordScore(k, prompt_lower)]

\* The positions in TOOL_CATEGORIES of the categories whose name occurs in
\* the prompt.
Mentioned(prompt_lower) ==
  {i \in 1..Len(TOOL_CATEGORIES) : Contains(prompt_lower, TOOL_CATEGORIES[i].text)}

\* max(category_scores, key=category_scores.get) right after the keyword
\* count: the first key, in insertion order, that carries the highest
\* score; None when no keyword matched.
PrimaryByKeywords(keyword_scores) ==
  IF \A k \in 1..Len(KEYWORD_MAPPINGS) : keyword_scores[k] = 0 THEN None
  ELSE KEYWORD_MAPPINGS[
         CHOOSE k \in 1..Len(KEYWORD_MAPPINGS) :
           /\ \A j \in 1..Len(KEYWORD_MAPPINGS) : keyword_scores[j] <= keyword_scores[k]
           /\ \A j \in 1..(k - 1) : keyword_scores[j] < keyword_scores[k]
       ].category

\* The two later assignments of primary_category, each under
\* "if not primary_category".
PrimaryCategory(by_keywords, file_extensions, mentioned) ==
  IF by_keywords # None THEN by_keywords
  ELSE IF file_extensions > 0 THEN "file_operations"
  ELSE IF mentioned # {}
    THEN TOOL_CATEGORIES[CHOOSE i \in mentioned : \A j \in mentioned : i <= j].category
  ELSE None

\* The final category_scores: keyword count, plus the number of file
\* extensions for file_operations, plus 5 for a category named in the
\* prompt.  Every category is mapped, 0 standing for a key that is absent
\* from the dict (every score the source stores is positive).
CategoryScores(keyword_scores, file_extensions, mentioned) ==
  [c \in CategoryNames |->
     (IF \E k \in 1..Len(KEYWORD_MAPPINGS) : KEYWORD_MAPPINGS[k].category = c
        THEN keyword_scores[CHOOSE k \in 1..Len(KEYWORD_MAPPINGS) :
                              KEYWORD_MAPPINGS[k].category = c]
        ELSE 0)
     + (IF c = "file_operations" THEN file_extensions ELSE 0)
     + (IF \E i \in mentioned : TOOL_CATEGORIES[i].category = c THEN 5 ELSE 0)]

\* The record analyze_prompt returns, from the three scans of the prompt.
Analysis(keyword_scores, file_extensions, mentioned) ==
  [ primary_category |->
      PrimaryCategory(PrimaryByKeywords(keyword_scores), file_extensions, mentioned),
    category_scores |-> CategoryScores(keyword_scores, file_extensions, mentioned),
    confidence |-> MaxOf(CategoryScores(keyword_scores, file_extensions, mentioned)) ]

\* analyze_prompt
analyze_prompt(prompt) ==
  Analysis(KeywordScores(lower(prompt)), CountExtensions(lower(prompt)),
           Mentioned(lower(prompt)))

\* category_to_set in select_tools
category_to_set ==
  [ file_operations |-> "file_operations",
    shell_operations |-> "shell_operations",
    code_development |-> "code_analysis",
    web_search |-> "web_research" ]

\* tools[:max_tools]
Truncate(tools, max_tools) == SubSeq(tools, 1, Min(Len(tools), max_tools))

\* The tool set select_tools picks for an analysis, before truncation.
ToolsForAnalysis(analysis, failing) ==
  IF /\ analysis.confidence >= 3
     /\ analysis.primary_category # None
     /\ analysis.primary_category \in DOMAIN category_to_set
     /\ get_tool_set(category_to_set[analysis.primary_category], failing) # <<>>
    THEN get_tool_set(category_to_set[analysis.primary_category], failing)
    ELSE get_tool_set("comprehensive", failing)

\* select_tools
select_tools(prompt, max_tools, failing) ==
  Truncate(ToolsForAnalysis(analyze_prompt(prompt), failing), max_tools)

-----------------------------------------------------------------------------
\* decision_engine.py

\* "Determine complexity" with reading and creating one file rated medium.
estimated_complexity_file_medium(operation_type, task_type, tools) ==
  IF operation_type = "file_operation"
       /\ task_type \in {"read_file", "create_single_file"}
    THEN "medium"
  ELSE IF operation_type = "code_operation" \/ task_type = "generate_code"
    THEN "medium"
  ELSE IF Len(tools) > 3 \/ task_type = "complex_search"
    THEN "high"
  ELSE "low"

\* "Determine complexity" with the tool count compared with 4.
estimated_complexity_more_tools(operation_type, task_type, tools) ==
  IF operation_type = "file_operation"
       /\ task_type \in {"read_file", "create_single_file"}
    THEN "low"
  ELSE IF operation_type = "code_operation" \/ task_type = "generate_code"
    THEN "medium"
  ELSE IF Len(tools) > 4 \/ task_type = "complex_search"
    THEN "high"
  ELSE "low"

\* "Determine complexity" without the test for generate_code.
estimated_complexity_by_operation(operation_type, task_type, tools) ==
  IF operation_type = "file_operation"
       /\ task_type \in {"read_file", "create_single_file"}
    THEN "low"
  ELSE IF operation_type = "code_operation"
    THEN "medium"
  ELSE IF Len(tools) > 3 \/ task_type = "complex_search"
    THEN "high"
  ELSE "low"

\* "Determine complexity" in _determine_execution_strategy; the tools
\* enter only through their number.
estimated_complexity(operation_type, task_type, tools) ==
  IF operation_type = "file_operation"
       /\ task_type \in {"read_file", "create_single_file"}
    THEN "low"
  ELSE IF operation_type = "code_operation" \/ task_type = "generate_code"
    THEN "medium"
  ELSE IF Len(tools) > 3 \/ task_type = "complex_search"
    THEN "high"
  ELSE "low"

\* _determine_execution_strategy with needs_confirmation lacking its
\* lower threshold.
determine_execution_strategy_no_lower_threshold(classification, task_type, tools) ==
  [ immediate_execution |-> classification.confidence >= 80,
    needs_confirmation |-> classification.confidence < 80,
    needs_clarification |-> classification.confidence < 50,
    parallel_possible |-> task_type \in {"create_multiple_files", "complex_search"},
    estimated_complexity |->
      estimated_complexity(classification.operation_type, task_type, tools) ]

\* _determine_execution_strategy
determine_execution_strategy(classification, task_type, tools) ==
  [ immediate_execution |-> classification.confidence >= 80,
    needs_confirmation |->
      classification.confidence < 80 /\ classification.confidence >= 50,
    needs_clarification |-> classification.confidence < 50,
    parallel_possible |-> task_type \in {"create_multiple_files", "complex_search"},
    estimated_complexity |->
      estimated_complexity(classification.operation_type, task_type, tools) ]

\* Step 6 of process_request: the decision record (the extracted
\* parameters are left out, no decision depends on them).
DecisionRecord(classification, task_type, tools) ==
  [ classification |-> classification,
    task_type |-> task_type,
    tools |-> tools,
    execution_strategy |-> determine_execution_strategy(classification, task_type, tools),
    requires_confirmation |-> classification.confidence < 80,
    routing |-> classification.routing ]

\* Step 4 of process_request: the tools for the resolved task type, or the
\* tool selector's choice when none resolved.
SelectTools(classification, task_type, failing, instances_equal) ==
  IF task_type # None
    THEN select_tools_for_task(task_type, failing, instances_equal)
    ELSE select_tools(classification.input, 5, failing)

\* Steps 3 to 6 of process_request for a classification.
Decision(classification, failing, instances_equal) ==
  DecisionRecord(
    classification,
    get_task_type_from_operation(classification.operation_type, classification.input),
    SelectTools(
      classification,
      get_task_type_from_operation(classification.operation_type, classification.input),
      failing, instances_equal))

-----------------------------------------------------------------------------
\* agent_orchestrator.py

\* The shape test with only the high complexity counted.
NeedsMultiAgentHighOnly(decision) ==
  \/ decision.execution_strategy.estimated_complexity \in {"high"}
  \/ decision.task_type \in {"complex_search", "analyze_code"}

\* The test of orchestrate_task that selects the multi-agent shape.
NeedsMultiAgent(decision) ==
  \/ decision.execution_strategy.estimated_complexity \in {"high", "medium"}
  \/ decision.task_type \in {"complex_search", "analyze_code"}

\* The descriptions of the three tasks of _multi_agent_execution.
planning_description(request) ==
  <<"A","n","a","l","y","z","e"," ","t","h","e"," ","r","e","q","u","e","s","t",":"," ">> \o request
    \o <<"\n","\n","B","r","e","a","k"," ","i","t"," ","d","o","w","n"," ","i","n","t","o"," ","s","t","e","p","s"," ","a","n","d"," ","c","o","o","r","d","i","n","a","t","e"," ","o","t","h","e","r"," ","a","g","e","n","t","s",".">>

execution_description(request) ==
  <<"E","x","e","c","u","t","e"," ","t","h","e"," ","p","l","a","n"," ","f","o","r",":"," ">> \o request
    \o <<"\n","\n","U","s","e"," ","a","v","a","i","l","a","b","l","e"," ","t","o","o","l","s"," ","t","o"," ","c","o","m","p","l","e","t","e"," ","t","h","e"," ","w","o","r","k",".">>

reporting_description(request) ==
  <<"C","r","e","a","t","e"," ","a"," ","c","o","m","p","r","e","h","e","n","s","i","v","e"," ","r","e","p","o","r","t"," ","f","o","r",":"," ">> \o request
    \o <<"\n","\n","S","y","n","t","h","e","s","i","z","e"," ","a","l","l"," ","i","n","f","o","r","m","a","t","i","o","n",".">>

\* _multi_agent_execution with the execute task always given to the code
\* analyst.
multi_agent_execution_analyst_only(request, decision) ==
  [ orchestration_type |-> "multi_agent",
    agents |-> <<"planner", "file_reader", "code_analyst", "report_writer">>,
    tasks |->
      << [stage |-> "plan", request |-> request, agent |-> "planner", context |-> <<>>,
          description |-> planning_description(request)],
         [stage |-> "execute", request |-> request, agent |-> "code_analyst",
          context |-> <<>>,
          description |-> execution_description(request)],
         [stage |-> "report", request |-> request, agent |-> "report_writer",
          context |-> <<1, 2>>,
          description |-> reporting_description(request)] >> ]

\* _multi_agent_execution: the three tasks, each with the role of its agent,
\* its description and the indices of the tasks given as its context.
multi_agent_execution(request, decision) ==
  [ orchestration_type |-> "multi_agent",
    agents |-> <<"planner", "file_reader", "code_analyst", "report_writer">>,
    tasks |->
      << [stage |-> "plan", request |-> request, agent |-> "planner", context |-> <<>>,
          description |-> planning_description(request)],
         [stage |-> "execute", request |-> request,
          agent |-> IF decision.task_type = "read_file"
                      THEN "file_reader" ELSE "code_analyst",
          context |-> <<>>,
          description |-> execution_description(request)],
         [stage |-> "report", request |-> request, agent |-> "report_writer",
          context |-> <<1, 2>>,
          description |-> reporting_description(request)] >> ]

\* _single_agent_execution: one task whose description is the request.
single_agent_execution(request, decision) ==
  [ orchestration_type |-> "single_agent",
    agents |-> <<"test_agent">>,
    tasks |->
      << [stage |-> "request", request |-> request, agent |-> "test_agent",
          context |-> <<>>, description |-> request] >> ]

\* The plan orchestrate_task returns for a decision.
Orchestration(request, decision) ==
  IF NeedsMultiAgent(decision)
    THEN multi_agent_execution(request, decision)
    ELSE single_agent_execution(request, decision)

-----------------------------------------------------------------------------
\* error_handling_cascades.py

\* ErrorSeverity values
CRITICAL == "critical"
HIGH == "high"
MEDIUM == "medium"
LOW == "low"

\* str(error) for an exception built from one message: KeyError shows the
\* repr of its argument, every other kind the message itself.
Str(error) ==
  IF error.type = "KeyError" THEN <<"'">> \o error.message \o <<"'">>
  ELSE error.message

\* _assess_severity with the kinds tested before the keywords.
assess_severity_kind_first(error) ==
  LET error_type == error.type
      error_str == lower(Str(error))
  IN  IF error_type \in {"SystemError", "MemoryError", "OSError"}
        THEN CRITICAL
      ELSE IF error_type \in {"RuntimeError", "ValueError", "KeyError"}
        THEN HIGH
      ELSE IF ContainsAny(error_str,
           << <<"s","y","s","t","e","m">>, <<"s","e","c","u","r","i","t","y">>,
              <<"b","r","e","a","c","h">>, <<"c","o","r","r","u","p","t">> >>)
        THEN CRITICAL
      ELSE IF ContainsAny(error_str,
           << <<"b","u","i","l","d">>, <<"c","r","a","s","h">>,
              <<"f","a","t","a","l">> >>)
        THEN HIGH
      ELSE IF error_type \in {"AttributeError", "TypeError", "ImportError"}
        THEN MEDIUM
      ELSE LOW

\* _assess_severity
assess_severity(error) ==
  LET error_type == error.type
      error_str == lower(Str(error))
  IN  IF ContainsAny(error_str,
           << <<"s","y","s","t","e","m">>, <<"s","e","c","u","r","i","t","y">>,
              <<"b","r","e","a","c","h">>, <<"c","o","r","r","u","p","t">> >>)
        THEN CRITICAL
      ELSE IF error_type \in {"SystemError", "MemoryError", "OSError"}
        THEN CRITICAL
      ELSE IF error_type \in {"RuntimeError", "ValueError", "KeyError"}
        THEN HIGH
      ELSE IF ContainsAny(error_str,
           << <<"b","u","i","l","d">>, <<"c","r","a","s","h">>,
              <<"f","a","t","a","l">> >>)
        THEN HIGH
      ELSE IF error_type \in {"AttributeError", "TypeError", "ImportError"}
        THEN MEDIUM
      ELSE LOW

\* _determine_recovery_strategy with the strategy of CRITICAL given to HIGH
\* as well.
determine_recovery_strategy_high_manual(severity) ==
  IF severity \in {CRITICAL, HIGH} THEN
    [ type |-> "manual", requires_intervention |-> TRUE,
      steps |-> <<"Document issue", "Provide workarounds", "Escalate">> ]
  ELSE IF severity = MEDIUM THEN
    [ type |-> "automatic", requires_intervention |-> FALSE,
      steps |-> <<"Retry", "Alternative approach", "Graceful degradation">> ]
  ELSE
    [ type |-> "automatic", requires_intervention |-> FALSE,
      steps |-> <<"Continue", "Log warning", "Best effort">> ]

\* _determine_recovery_strategy: strategy_map
determine_recovery_strategy(severity) ==
  IF severity = CRITICAL THEN
    [ type |-> "manual", requires_intervention |-> TRUE,
      steps |-> <<"Document issue", "Provide workarounds", "Escalate">> ]
  ELSE IF severity = HIGH THEN
    [ type |-> "assisted", requires_intervention |-> FALSE,
      steps |-> <<"Retry with backoff", "Fallback options", "Guided resolution">> ]
  ELSE IF severity = MEDIUM THEN
    [ type |-> "automatic", requires_intervention |-> FALSE,
      steps |-> <<"Retry", "Alternative approach", "Graceful degradation">> ]
  ELSE
    [ type |-> "automatic", requires_intervention |-> FALSE,
      steps |-> <<"Continue", "Log warning", "Best effort">> ]

\* _execute_recovery
execute_recovery(recovery) ==
  IF recovery.type = "automatic" THEN
    [ success |-> TRUE, can_continue |-> TRUE,
      action |-> "Automatic recovery attempted", strategy |-> recovery,
      guidance |-> <<>> ]
  ELSE IF recovery.type = "assisted" THEN
    [ success |-> FALSE, can_continue |-> TRUE,
      action |-> "Assisted recovery needed", strategy |-> recovery,
      guidance |-> recovery.steps ]
  ELSE
    [ success |-> FALSE, can_continue |-> FALSE,
      action |-> "Manual intervention required", strategy |-> recovery,
      guidance |-> <<>> ]

\* The record handle_error appends to error_history (context and traceback
\* left out).
ErrorRecord(error) ==
  LET severity == assess_severity(error)
  IN  [ error |-> Str(error),
        type |-> error.type,
        severity |-> severity,
        recovery |-> execute_recovery(determine_recovery_strategy(severity)) ]

\* The value handle_error returns.
ErrorResult(error) ==
  LET record == ErrorRecord(error)
  IN  [ severity |-> record.severity,
        error |-> record.error,
        recovery |-> record.recovery,
        can_continue |-> record.recovery.can_continue ]

-----------------------------------------------------------------------------
\* output_formatter.py

\* Python values, as far as the formatter tells them apart: a string, an
\* integer, a boolean, None, a dict (its items in insertion order, the keys
\* strings), a list, and any other object (an enum member, a tool
\* instance), known by its repr.
StrV(text) ==
  [kind |-> "str", text |-> text, num |-> 0, items |-> <<>>, display |-> <<>>]

IntV(n) ==
  [kind |-> "int", text |-> <<>>, num |-> n, items |-> <<>>, display |-> <<>>]

BoolV(b) ==
  [kind |-> "bool", text |-> <<>>, num |-> IF b THEN 1 ELSE 0, items |-> <<>>,
   display |-> <<>>]

NoneV ==
  [kind |-> "none", text |-> <<>>, num |-> 0, items |-> <<>>, display |-> <<>>]

\* An object with the given repr and the given str.
ObjectV(text, display) ==
  [kind |-> "object", text |-> text, num |-> 0, items |-> <<>>, display |-> display]

DictV(items) ==
  [kind |-> "dict", text |-> <<>>, num |-> 0, items |-> items, display |-> <<>>]

ListV(items) ==
  [kind |-> "list", text |-> <<>>, num |-> 0, items |-> items, display |-> <<>>]

\* One item of a dict.
Item(key, value) == [key |-> key, value |-> value]

\* dict.get(key, default)
Get(dict, key, default) ==
  IF \E i \in 1..Len(dict.items) : dict.items[i].key = key
    THEN dict.items[CHOOSE i \in 1..Len(dict.items) : dict.items[i].key = key].value
    ELSE default

RECURSIVE Concat(_, _)
\* separator.join(parts), computed by halves
Concat(parts, separator) ==
  IF parts = <<>> THEN <<>>
  ELSE IF Len(parts) = 1 THEN parts[1]
  ELSE LET half == Len(parts) \div 2
       IN  Concat(SubSeq(parts, 1, half), separator) \o separator
             \o Concat(SubSeq(parts, half + 1, Len(parts)), separator)

\* The decimal digits in order.
DigitChars == <<"0","1","2","3","4","5","6","7","8","9">>

RECURSIVE IntStr(_)
\* str(n) of an integer
IntStr(n) ==
  IF n < 0 THEN <<"-">> \o IntStr(0 - n)
  ELSE IF n < 10 THEN <<DigitChars[n + 1]>>
  ELSE IntStr(n \div 10) \o <<DigitChars[(n % 10) + 1]>>

RECURSIVE Escaped(_, _)
\* The text with a backslash before every backslash and every occurrence of
\* the quote, and a line feed written as backslash n; computed by halves.
Escaped(text, quote) ==
  IF text = <<>> THEN <<>>
  ELSE IF Len(text) = 1 THEN
    IF text[1] = "\n" THEN <<"\\", "n">>
    ELSE IF text[1] \in {"\\", quote} THEN <<"\\", text[1]>>
    ELSE text
  ELSE LET half == Len(text) \div 2
       IN  Escaped(SubSeq(text, 1, half), quote)
             \o Escaped(SubSeq(text, half + 1, Len(text)), quote)

\* repr(text): single quotes, unless the text holds a single quote and no
\* double quote.
repr_str(text) ==
  IF (\E i \in 1..Len(text) : text[i] = "'") /\ ~(\E i \in 1..Len(text) : text[i] = "\"")
    THEN <<"\"">> \o Escaped(text, "\"") \o <<"\"">>
    ELSE <<"'">> \o Escaped(text, "'") \o <<"'">>

RECURSIVE repr(_)
\* repr(value)
repr(value) ==
  IF value.kind = "str" THEN repr_str(value.text)
  ELSE IF value.kind = "int" THEN IntStr(value.num)
  ELSE IF value.kind = "bool" THEN (IF value.num = 1 THEN <<"T","r","u","e">> ELSE <<"F","a","l","s","e">>)
  ELSE IF value.kind = "none" THEN <<"N","o","n","e">>
  ELSE IF value.kind = "object" THEN value.text
  ELSE IF value.kind = "dict" THEN
    <<"{">> \o Concat([i \in 1..Len(value.items) |->
                         repr_str(value.items[i].key) \o <<":"," ">>
                           \o repr(value.items[i].value)], <<","," ">>) \o <<"}">>
  ELSE
    <<"[">> \o Concat([i \in 1..Len(value.items) |-> repr(value.items[i])], <<","," ">>)
      \o <<"]">>

\* str(value)
str(value) ==
  IF value.kind = "str" THEN value.text
  ELSE IF value.kind = "object" THEN value.display
  ELSE repr(value)
RECURSIVE Serializable(_)
\* json.dumps can encode the value: no object anywhere in it.
Serializable(value) ==
  IF value.kind = "object" THEN FALSE
  ELSE IF value.kind = "dict"
    THEN \A i \in 1..Len(value.items) : Serializable(value.items[i].value)
  ELSE IF value.kind = "list"
    THEN \A i \in 1..Len(value.items) : Serializable(value.items[i])
  ELSE TRUE

\* The indentation of a nesting level, two spaces a level.
Indent(level) == [i \in 1..(2 * level) |-> " "]

RECURSIVE json_text(_, _)
\* The text json.dumps(value, indent=2) writes for a value nested at the
\* given level.
json_text(value, level) ==
  IF value.kind = "str" THEN <<"\"">> \o Escaped(value.text, "\"") \o <<"\"">>
  ELSE IF value.kind = "int" THEN IntStr(value.num)
  ELSE IF value.kind = "bool" THEN (IF value.num = 1 THEN <<"t","r","u","e">> ELSE <<"f","a","l","s","e">>)
  ELSE IF value.kind = "none" THEN <<"n","u","l","l">>
  ELSE IF value.kind = "dict" THEN
    IF value.items = <<>> THEN <<"{","}">>
    ELSE <<"{", "\n">>
           \o Concat([i \in 1..Len(value.items) |->
                        Indent(level + 1) \o <<"\"">>
                          \o Escaped(value.items[i].key, "\"") \o <<"\"",":"," ">>
                          \o json_text(value.items[i].value, level + 1)],
                     <<",", "\n">>)
           \o <<"\n">> \o Indent(level) \o <<"}">>
  ELSE
    IF value.items = <<>> THEN <<"[","]">>
    ELSE <<"[", "\n">>
           \o Concat([i \in 1..Len(value.items) |->
                        Indent(level + 1) \o json_text(value.items[i], level + 1)],
                     <<",", "\n">>)
           \o <<"\n">> \o Indent(level) \o <<"]">>

\* What a formatter call comes to: the string it returns, or the exception
\* it raises.
Returned(text) == [raised |-> None, text |-> text]

Raised(kind) == [raised |-> kind, text |-> <<>>]

\* OutputFormat values
CODE == "code"
MARKDOWN == "markdown"
TABLE == "table"
PLAIN == "plain"
JSON == "json"
MULTI_FILE == "multi_file"

\* The context argument: its request_type and language entries, None for
\* an entry that is absent.
NoContext == [request_type |-> None, language |-> None]

\* The grave accent (U+0060), which a string literal here cannot hold.
Backtick == "grave"

\* The fence: three grave accents.
Fence == <<Backtick, Backtick, Backtick>>

\* _determine_format with the shape of the content tested before the
\* request type.
determine_format_shape_first(content, context) ==
  IF content.kind \in {"dict", "list"} THEN JSON
  ELSE IF content.kind = "str" /\ Contains(content.text, Fence) THEN CODE
  ELSE IF context.request_type = "code_generation" THEN CODE
  ELSE IF context.request_type = "documentation" THEN MARKDOWN
  ELSE IF context.request_type = "data_display" THEN TABLE
  ELSE PLAIN

\* _determine_format
determine_format(content, context) ==
  IF context.request_type = "code_generation" THEN CODE
  ELSE IF context.request_type = "documentation" THEN MARKDOWN
  ELSE IF context.request_type = "data_display" THEN TABLE
  ELSE IF content.kind \in {"dict", "list"} THEN JSON
  ELSE IF content.kind = "str" /\ Contains(content.text, Fence) THEN CODE
  ELSE PLAIN

\* The languages a context names, as written after the opening fence.
LanguageName ==
  [ python |-> <<"p","y","t","h","o","n">>, javascript |-> <<"j","a","v","a","s","c","r","i","p","t">> ]

\* _format_code
format_code(content, context) ==
  LET language == IF context.language = None THEN LanguageName["python"]
                  ELSE LanguageName[context.language]
  IN  IF content.kind = "str" /\ startswith(content.text, Fence)
        THEN Returned(content.text)
        ELSE Returned(Fence \o language \o <<"\n">> \o str(content) \o <<"\n">> \o Fence)

\* _format_markdown
format_markdown(content, context) ==
  IF content.kind = "dict"
    THEN Returned(Concat([i \in 1..Len(content.items) |->
                            <<"#","#"," ">> \o content.items[i].key \o <<"\n", "\n">>
                              \o str(content.items[i].value) \o <<"\n", "\n">>],
                         <<>>))
    ELSE Returned(str(content))

\* The most rows _format_table writes.
ROW_LIMIT == 20

\* One line of a table: "| " + " | ".join(cells) + " |\n"
TableLine(cells) == <<"|"," ">> \o Concat(cells, <<" ","|"," ">>) \o <<" ", "|", "\n">>

\* _format_table.  A row that is no dict has no get: AttributeError.
format_table(content, context) ==
  IF content.kind = "list" /\ content.items # <<>> /\ content.items[1].kind = "dict"
    THEN LET headers == [i \in 1..Len(content.items[1].items) |->
                           content.items[1].items[i].key]
             rows == SubSeq(content.items, 1, Min(Len(content.items), ROW_LIMIT))
         IN  IF \E r \in 1..Len(rows) : rows[r].kind # "dict"
               THEN Raised("AttributeError")
               ELSE Returned(
                      TableLine(headers)
                        \o TableLine([i \in 1..Len(headers) |-> <<"-","-","-">>])
                        \o Concat([r \in 1..Len(rows) |->
                                     TableLine([i \in 1..Len(headers) |->
                                       str(Get(rows[r], headers[i], StrV(<<>>)))])],
                                  <<>>))
    ELSE Returned(str(content))

\* _format_json.  json.dumps raises TypeError on a value it cannot encode.
format_json(content, context) ==
  IF Serializable(content) THEN Returned(json_text(content, 0))
  ELSE Raised("TypeError")

\* _format_multi_file
format_multi_file(content, context) ==
  IF content.kind = "dict"
    THEN Returned(
           <<"#"," ","G","e","n","e","r","a","t","e","d"," ","F","i","l","e","s","\n","\n">>
             \o Concat([i \in 1..Len(content.items) |->
                          <<"#","#"," ">> \o content.items[i].key \o <<"\n", "\n">>
                            \o Fence \o <<"\n">> \o str(content.items[i].value)
                            \o <<"\n">> \o Fence \o <<"\n", "\n">>],
                       <<>>))
    ELSE Returned(str(content))

\* _format_plain
format_plain(content, context) == Returned(str(content))

\* The format format_output works with.
FormatUsed(content, format_type, context) ==
  IF format_type = None THEN determine_format(content, context) ELSE format_type

\* format_output
format_output(content, format_type, context) ==
  LET format == FormatUsed(content, format_type, context)
  IN  IF format = CODE THEN format_code(content, context)
      ELSE IF format = MARKDOWN THEN format_markdown(content, context)
      ELSE IF format = TABLE THEN format_table(content, context)
      ELSE IF format = JSON THEN format_json(content, context)
      ELSE IF format = MULTI_FILE THEN format_multi_file(content, context)
      ELSE format_plain(content, context)

-----------------------------------------------------------------------------
\* Bounds and input sets

\* Longest request, in words.
MaxWords == 2

\* Longest error message, in words.
MaxErrorWords == 2

\* Most calls recorded in a history.
MaxHistory == 1

\* The words the texts given to the recognizer are built from.
Words ==
  <<
    <<"R","e","a","d">>, <<"c","r","e","a","t","e">>,
    <<"a","p","p",".","p","y">>, <<"a","n","a","l","y","z","e">>,
    <<"c","o","d","e">>, <<"g","i","t">>, <<"f","i","n","d">>,
    <<"r","u","n">>, <<"n","e","e","d">>, <<"b","u","g">>,
    <<"t","e","s","t">>, <<"s","e","t","u","p">>, <<"r","e","n","e","w">>,
    <<"a","d","d">>
  >>

\* The words the requests given to the decision engine are built from.
RequestWords ==
  <<
    <<"R","e","a","d">>, <<"c","r","e","a","t","e">>,
    <<"a","p","p",".","p","y">>, <<"a","n","a","l","y","z","e">>,
    <<"c","o","d","e">>, <<"g","i","t">>, <<"f","i","n","d">>,
    <<"r","u","n">>, <<"n","e","e","d">>, <<"t","e","s","t">>
  >>

\* The request "Read app.py".
ReadRequest == <<"R","e","a","d"," ","a","p","p",".","p","y">>

\* The request "Analyze the code in main.py for bugs and refactor it".
AnalyzeRequest ==
  <<
    "A","n","a","l","y","z","e"," ","t","h","e"," ","c","o",
    "d","e"," ","i","n"," ","m","a","i","n",".","p","y"," ",
    "f","o","r"," ","b","u","g","s"," ","a","n","d"," ","r",
    "e","f","a","c","t","o","r"," ","i","t"
  >>

\* The words error messages are built from.
ErrorWords ==
  <<
    <<"c","o","r","r","u","p","t">>, <<"S","e","c","u","r","i","t","y">>,
    <<"b","u","i","l","d">>, <<"f","a","t","a","l">>,
    <<"m","i","s","s","i","n","g">>, <<"k","e","y">>
  >>

\* The message "missing config key".
MissingConfigKey ==
  <<"m","i","s","s","i","n","g"," ","c","o","n","f","i","g"," ","k","e","y">>

\* What may precede the first word of a text.
Leads == { <<>>, <<" ", "/">> }

RECURSIVE Join(_, _)
\* " ".join(...) of the words with the given indices
Join(vocabulary, indices) ==
  IF Len(indices) = 0 THEN <<>>
  ELSE IF Len(indices) = 1 THEN vocabulary[indices[1]]
  ELSE vocabulary[indices[1]] \o <<" ">> \o Join(vocabulary, Tail(indices))

\* The texts of 1..n words of a vocabulary.
Phrases(vocabulary, n) ==
  UNION { {Join(vocabulary, indices) : indices \in [1..k -> 1..Len(vocabulary)]} : k \in 1..n }

\* A request matching three implicit pattern groups and no explicit one.
ImproveRequest == <<"n","e","e","d"," ","b","e","t","t","e","r"," ","e","r","r","o","r"," ","h","a","n","d","l","i","n","g">>

\* The texts given to the recognizer alone.
Inputs ==
  {lead \o phrase : lead \in Leads, phrase \in Phrases(Words, MaxWords)}
    \cup {AnalyzeRequest, ImproveRequest}

\* The requests given to the decision engine and the orchestrator.
Requests == Phrases(RequestWords, MaxWords) \cup {AnalyzeRequest}

\* The builds of the model, each the set of tool classes whose constructor
\* raises: every tool can be built, only the shell tool cannot (its
\* process dependency is missing), or only the file tools can (no
\* credentials and no interpreter runtime either).
FailureSets ==
  { {},
    {"ShellTool"},
    {"SerperDevTool", "CodeInterpreterTool", "CodeDocsSearchTool",
     "WebsiteSearchTool", "ScrapeWebsiteTool", "TavilySearchTool",
     "GithubSearchTool", "ShellTool"} }

\* Exception kinds, by class name.
ErrorTypes ==
  { "SystemError", "MemoryError", "OSError", "RuntimeError", "ValueError",
    "KeyError", "AttributeError", "TypeError", "ImportError", "Exception",
    "FileNotFoundError" }

\* The exceptions of the model.
Errors ==
  [ type : ErrorTypes,
    message : Phrases(ErrorWords, MaxErrorWords) \cup {<<>>, MissingConfigKey} ]

\* The value of result before any call.
NoResult == [op |-> "none"]

\* The session state where no session is modelled.
NoSession == [current_model |-> None]

\* The value of raised when no exception is being handled.
NoError == [type |-> None, message |-> <<>>]

\* The value of arguments when no direct call is made.
NoArguments == [function |-> None]

-----------------------------------------------------------------------------
\* terminal_handler.py

\* TerminalHandler.DESTRUCTIVE_COMMANDS
DESTRUCTIVE_COMMANDS ==
  << <<"r","m">>, <<"d","e","l">>, <<"d","e","l","e","t","e">>, <<"r","e","m","o","v","e">>, <<"f","o","r","m","a","t">>, <<"f","d","i","s","k">>,
     <<"d","d">>, <<"m","k","f","s">>, <<"s","h","r","e","d">>, <<"w","i","p","e">> >>

\* TerminalHandler.DANGEROUS_PATTERNS
DANGEROUS_PATTERNS ==
  << <<"r","m"," ","-","r","f">>, <<"r","m"," ","-","r"," ","-","f">>, <<"s","u","d","o"," ","r","m">>, <<"f","o","r","m","a","t"," ","c",":">>,
     <<"d","e","l"," ","/","f"," ","/","s">>, <<"r","m"," ","-","r","f"," ","/">>, <<"r","m"," ","-","r","f"," ","*">> >>

\* The system modifiers of _check_command_safety.
system_modifiers ==
  << <<"s","u","d","o">>, <<"c","h","m","o","d">>, <<"c","h","o","w","n">>, <<"i","n","s","t","a","l","l">>, <<"u","n","i","n","s","t","a","l","l">> >>

\* The first text of a list that satisfies a test, given as the set of the
\* indices that satisfy it.
First(texts, found) == texts[CHOOSE i \in found : \A j \in found : i <= j]

\* _check_command_safety(command); reason is None where the dict has no
\* such key.
check_command_safety(command) ==
  LET command_lower == lower(command)
      dangerous == { i \in 1..Len(DANGEROUS_PATTERNS) :
                       Contains(command_lower, DANGEROUS_PATTERNS[i]) }
      destructive == { i \in 1..Len(DESTRUCTIVE_COMMANDS) :
                         \/ startswith(command_lower, DESTRUCTIVE_COMMANDS[i])
                         \/ Contains(command_lower,
                                     <<" ">> \o DESTRUCTIVE_COMMANDS[i] \o <<" ">>) }
  IN  IF dangerous # {}
        THEN [ safe |-> FALSE, blocked |-> TRUE,
               reason |-> <<"D","a","n","g","e","r","o","u","s"," ","p","a","t","t","e","r","n",":"," ">> \o First(DANGEROUS_PATTERNS, dangerous),
               requires_confirmation |-> FALSE ]
      ELSE IF destructive # {}
        THEN [ safe |-> FALSE, blocked |-> FALSE,
               reason |-> <<"D","e","s","t","r","u","c","t","i","v","e"," ","c","o","m","m","a","n","d",":"," ">>
                            \o First(DESTRUCTIVE_COMMANDS, destructive),
               requires_confirmation |-> TRUE ]
      ELSE IF ContainsAny(command_lower, system_modifiers)
        THEN [ safe |-> FALSE, blocked |-> FALSE,
               reason |-> <<"S","y","s","t","e","m"," ","m","o","d","i","f","i","c","a","t","i","o","n"," ","c","o","m","m","a","n","d">>,
               requires_confirmation |-> TRUE ]
      ELSE [ safe |-> TRUE, blocked |-> FALSE, reason |-> None,
             requires_confirmation |-> FALSE ]

\* The dict of a safety check.
SafetyValue(safety_check) ==
  DictV( << Item(<<"s","a","f","e">>, BoolV(safety_check.safe)),
            Item(<<"b","l","o","c","k","e","d">>, BoolV(safety_check.blocked)) >>
         \o (IF safety_check.reason = None THEN <<>>
             ELSE << Item(<<"r","e","a","s","o","n">>, StrV(safety_check.reason)) >>)
         \o << Item(<<"r","e","q","u","i","r","e","s","_","c","o","n","f","i","r","m","a","t","i","o","n">>,
                    BoolV(safety_check.requires_confirmation)) >> )

\* shlex.split of a text without quotes, escapes or comment signs: the
\* words between the runs of whitespace.
RECURSIVE Split(_)
Split(text) ==
  IF Len(text) = 0 THEN <<>>
  ELSE IF text[1] \in Whitespace THEN Split(Tail(text))
  ELSE LET ends == { i \in 1..Len(text) : text[i] \in Whitespace }
           stop == IF ends = {} THEN Len(text) + 1
                   ELSE CHOOSE i \in ends : \A j \in ends : i <= j
       IN  <<SubSeq(text, 1, stop - 1)>> \o Split(SubSeq(text, stop, Len(text)))

\* platform.system().lower(), as __init__ keeps it
Platforms == {"linux", "darwin", "windows"}

\* _construct_command(command, context)
construct_command(command, platform) ==
  IF platform = "windows" THEN << <<"c","m","d">>, <<"/","c">> >> \o Split(command)
  ELSE Split(command)

\* What subprocess.run comes to: a completed process, the timeout, or
\* another exception.
SubprocessOutcomes ==
  { [kind |-> "completed", returncode |-> 0, stdout |-> <<"o","k">>, stderr |-> <<>>],
    [kind |-> "completed", returncode |-> 1, stdout |-> <<>>,
     stderr |-> <<"r","m",":"," ","x",":"," ","P","e","r","m","i","s","s","i","o","n"," ","d","e","n","i","e","d">>],
    [kind |-> "TimeoutExpired"],
    [kind |-> "FileNotFoundError", message |-> <<"N","o"," ","s","u","c","h"," ","f","i","l","e"," ","o","r"," ","d","i","r","e","c","t","o","r","y">>] }

\* _execute(command, context) for an outcome of subprocess.run: the dict
\* returned, with None for the keys it does not have.
execute(command, outcome) ==
  IF outcome.kind = "completed"
    THEN [ success |-> outcome.returncode = 0, returncode |-> outcome.returncode,
           stdout |-> outcome.stdout, stderr |-> outcome.stderr,
           command |-> Concat(command, <<" ">>) ]
  ELSE [ success |-> FALSE, returncode |-> -1, stdout |-> <<>>, stderr |-> <<>>,
         command |-> Concat(command, <<" ">>) ]

\* _parse_error(error)
parse_error(error) ==
  DictV( << Item(<<"m","e","s","s","a","g","e">>, StrV(error)),
            Item(<<"s","u","g","g","e","s","t","i","o","n","s">>,
                 ListV(IF Contains(lower(error), <<"c","o","m","m","a","n","d"," ","n","o","t"," ","f","o","u","n","d">>)
                         THEN << StrV(<<"C","h","e","c","k"," ","i","f"," ","c","o","m","m","a","n","d"," ","i","s"," ","i","n","s","t","a","l","l","e","d"," ","a","n","d"," ","i","n"," ","P","A","T","H">>) >>
                       ELSE IF Contains(lower(error), <<"p","e","r","m","i","s","s","i","o","n"," ","d","e","n","i","e","d">>)
                         THEN << StrV(<<"C","h","e","c","k"," ","f","i","l","e"," ","p","e","r","m","i","s","s","i","o","n","s"," ","o","r"," ","u","s","e"," ","s","u","d","o"," ","i","f"," ","a","p","p","r","o","p","r","i","a","t","e">>) >>
                       ELSE IF Contains(lower(error), <<"n","o"," ","s","u","c","h"," ","f","i","l","e">>)
                         THEN << StrV(<<"V","e","r","i","f","y"," ","f","i","l","e"," ","p","a","t","h"," ","e","x","i","s","t","s">>) >>
                       ELSE <<>>)) >> )

\* The longest output _process_output keeps whole.
OUTPUT_LIMIT == 30000

\* _process_output(result)
process_output(executed_result) ==
  DictV( << Item(<<"s","u","c","c","e","s","s">>, BoolV(executed_result.success)),
            Item(<<"o","u","t","p","u","t">>,
                 StrV(IF Len(executed_result.stdout) > OUTPUT_LIMIT
                        THEN SubSeq(executed_result.stdout, 1, OUTPUT_LIMIT)
                               \o <<"\n",".",".","."," ","(","t","r","u","n","c","a","t","e","d",")">>
                        ELSE executed_result.stdout)),
            Item(<<"e","r","r","o","r">>, StrV(executed_result.stderr)),
            Item(<<"e","r","r","o","r","_","s","u","m","m","a","r","y">>,
                 IF Len(executed_result.stderr) > 0
                   THEN parse_error(executed_result.stderr) ELSE NoneV),
            Item(<<"r","e","t","u","r","n","c","o","d","e">>,
                 IntV(executed_result.returncode)),
            Item(<<"c","o","m","m","a","n","d">>, StrV(executed_result.command)) >> )

\* A call of execute_command that gave no command to subprocess.run, and
\* one that gave one.
Refused(value) == [error |-> NoError, value |-> value, ran |-> <<>>]

Ran(command, value) == [error |-> NoError, value |-> value, ran |-> <<command>>]

\* execute_command with the block of dangerous commands lifted by the
\* confirmation.
execute_command_confirmed_unblocks(command, confirmed) ==
  IF check_command_safety(command).requires_confirmation /\ ~confirmed
    THEN { Refused(DictV(
             << Item(<<"s","u","c","c","e","s","s">>, BoolV(FALSE)),
                Item(<<"e","r","r","o","r">>, StrV(<<"D","e","s","t","r","u","c","t","i","v","e"," ","c","o","m","m","a","n","d"," ","r","e","q","u","i","r","e","s"," ","c","o","n","f","i","r","m","a","t","i","o","n">>)),
                Item(<<"s","a","f","e","t","y","_","c","h","e","c","k">>, SafetyValue(check_command_safety(command))),
                Item(<<"r","e","q","u","i","r","e","s","_","c","o","n","f","i","r","m","a","t","i","o","n">>, BoolV(TRUE)) >>)) }
  ELSE IF check_command_safety(command).blocked /\ ~confirmed
    THEN { Refused(DictV(
             << Item(<<"s","u","c","c","e","s","s">>, BoolV(FALSE)),
                Item(<<"e","r","r","o","r">>, StrV(<<"C","o","m","m","a","n","d"," ","b","l","o","c","k","e","d"," ","f","o","r"," ","s","a","f","e","t","y">>)),
                Item(<<"s","a","f","e","t","y","_","c","h","e","c","k">>, SafetyValue(check_command_safety(command))) >>)) }
  ELSE { Ran(construct_command(command, platform),
             process_output(execute(construct_command(command, platform), outcome))) :
           platform \in Platforms, outcome \in SubprocessOutcomes }

\* execute_command(command, context, confirmed): what the call returns and
\* the commands it gives to subprocess.run, for every platform and every
\* outcome of the subprocess.
execute_command(command, confirmed) ==
  IF check_command_safety(command).requires_confirmation /\ ~confirmed
    THEN { Refused(DictV(
             << Item(<<"s","u","c","c","e","s","s">>, BoolV(FALSE)),
                Item(<<"e","r","r","o","r">>, StrV(<<"D","e","s","t","r","u","c","t","i","v","e"," ","c","o","m","m","a","n","d"," ","r","e","q","u","i","r","e","s"," ","c","o","n","f","i","r","m","a","t","i","o","n">>)),
                Item(<<"s","a","f","e","t","y","_","c","h","e","c","k">>, SafetyValue(check_command_safety(command))),
                Item(<<"r","e","q","u","i","r","e","s","_","c","o","n","f","i","r","m","a","t","i","o","n">>, BoolV(TRUE)) >>)) }
  ELSE IF check_command_safety(command).blocked
    THEN { Refused(DictV(
             << Item(<<"s","u","c","c","e","s","s">>, BoolV(FALSE)),
                Item(<<"e","r","r","o","r">>, StrV(<<"C","o","m","m","a","n","d"," ","b","l","o","c","k","e","d"," ","f","o","r"," ","s","a","f","e","t","y">>)),
                Item(<<"s","a","f","e","t","y","_","c","h","e","c","k">>, SafetyValue(check_command_safety(command))) >>)) }
  ELSE { Ran(construct_command(command, platform),
             process_output(execute(construct_command(command, platform), outcome))) :
           platform \in Platforms, outcome \in SubprocessOutcomes }

\* _handle_terminal_operation: the request is the command, not confirmed.
handle_terminal_operation(request) == execute_command(request, FALSE)

-----------------------------------------------------------------------------
\* handler_dispatcher.py

\* extract_parameters finds a file path: re.findall(r'[\w/\\]+\.\w+', text)
\* is not empty.
HasFilePaths(text) ==
  \E i \in 2..(Len(text) - 1) :
    /\ text[i] = "."
    /\ (IsWordChar(text[i - 1]) \/ text[i - 1] \in {"/", "\\"})
    /\ IsWordChar(text[i + 1])

\* The member of IntentType with the given value, as repr and str show it.
IntentMember ==
  [ explicit |-> ObjectV(<<"<","I","n","t","e","n","t","T","y","p","e",".","E","X","P","L","I","C","I","T","_","C","O","M","M","A","N","D",":"," ","'","e","x","p","l","i","c","i","t","'",">">>,
                         <<"I","n","t","e","n","t","T","y","p","e",".","E","X","P","L","I","C","I","T","_","C","O","M","M","A","N","D">>),
    implicit |-> ObjectV(<<"<","I","n","t","e","n","t","T","y","p","e",".","I","M","P","L","I","C","I","T","_","R","E","Q","U","E","S","T",":"," ","'","i","m","p","l","i","c","i","t","'",">">>,
                         <<"I","n","t","e","n","t","T","y","p","e",".","I","M","P","L","I","C","I","T","_","R","E","Q","U","E","S","T">>),
    ambiguous |-> ObjectV(<<"<","I","n","t","e","n","t","T","y","p","e",".","A","M","B","I","G","U","O","U","S",":"," ","'","a","m","b","i","g","u","o","u","s","'",">">>,
                          <<"I","n","t","e","n","t","T","y","p","e",".","A","M","B","I","G","U","O","U","S">>),
    init |-> ObjectV(<<"<","I","n","t","e","n","t","T","y","p","e",".","I","N","I","T","I","A","L","I","Z","A","T","I","O","N",":"," ","'","i","n","i","t","'",">">>,
                     <<"I","n","t","e","n","t","T","y","p","e",".","I","N","I","T","I","A","L","I","Z","A","T","I","O","N">>),
    generation |-> ObjectV(<<"<","I","n","t","e","n","t","T","y","p","e",".","G","E","N","E","R","A","T","I","O","N",":"," ","'","g","e","n","e","r","a","t","i","o","n","'",">">>,
                           <<"I","n","t","e","n","t","T","y","p","e",".","G","E","N","E","R","A","T","I","O","N">>),
    debugging |-> ObjectV(<<"<","I","n","t","e","n","t","T","y","p","e",".","D","E","B","U","G","G","I","N","G",":"," ","'","d","e","b","u","g","g","i","n","g","'",">">>,
                          <<"I","n","t","e","n","t","T","y","p","e",".","D","E","B","U","G","G","I","N","G">>),
    testing |-> ObjectV(<<"<","I","n","t","e","n","t","T","y","p","e",".","T","E","S","T","I","N","G",":"," ","'","t","e","s","t","i","n","g","'",">">>,
                        <<"I","n","t","e","n","t","T","y","p","e",".","T","E","S","T","I","N","G">>) ]

\* The decision dict as a value: the classification with its intent (a
\* member of IntentType) and its input, and the tool instances.  The other
\* entries are numbers, booleans, strings and None, which every formatter
\* can write; they are left out.
DecisionValue(decision) ==
  DictV(<<
    Item(<<"c","l","a","s","s","i","f","i","c","a","t","i","o","n">>,
         DictV(<< Item(<<"i","n","t","e","n","t">>, IntentMember[decision.classification.intent]),
                  Item(<<"i","n","p","u","t">>, StrV(decision.classification.input)) >>)),
    Item(<<"t","o","o","l","s">>,
         ListV([i \in 1..Len(decision.tools) |->
                  ObjectV(<<"<","t","o","o","l",">">>, <<"<","t","o","o","l",">">>)])) >>)

\* The severities as text.
SeverityText ==
  [ critical |-> <<"c","r","i","t","i","c","a","l">>, high |-> <<"h","i","g","h">>, medium |-> <<"m","e","d","i","u","m">>,
    low |-> <<"l","o","w">> ]

\* What handle_error returns, as a value; of the recovery dict the fixed
\* texts (action, strategy, guidance) are left out.
ErrorResultValue(error_result) ==
  DictV(<<
    Item(<<"s","e","v","e","r","i","t","y">>, StrV(SeverityText[error_result.severity])),
    Item(<<"e","r","r","o","r">>, StrV(error_result.error)),
    Item(<<"r","e","c","o","v","e","r","y">>,
         DictV(<< Item(<<"s","u","c","c","e","s","s">>, BoolV(error_result.recovery.success)),
                  Item(<<"c","a","n","_","c","o","n","t","i","n","u","e">>, BoolV(error_result.recovery.can_continue)) >>)),
    Item(<<"c","a","n","_","c","o","n","t","i","n","u","e">>, BoolV(error_result.can_continue)) >>)

\* A handler running to its end, or raising.
Returns(value) == [error |-> NoError, value |-> value, ran |-> <<>>]

Raises(error) == [error |-> error, value |-> NoneV, ran |-> <<>>]

\* What a call into one of the handlers can come to: a dict of strings,
\* numbers, booleans, None and lists of them, of which the success entry is
\* kept, or an exception the handler did not catch.
HandlerErrors ==
  { [type |-> "OSError", message |-> <<"d","i","s","k">>],
    [type |-> "TypeError", message |-> <<"b","a","d"," ","p","a","t","h">>] }

HandlerCall ==
  {Returns(DictV(<<Item(<<"s","u","c","c","e","s","s">>, BoolV(success))>>)) : success \in BOOLEAN}
    \cup {Raises(error) : error \in HandlerErrors}

\* A fixed dict of success and one text.
Fixed(success, key, text) ==
  {Returns(DictV(<<Item(<<"s","u","c","c","e","s","s">>, BoolV(success)), Item(key, StrV(text))>>))}

\* _handle_file_operation
handle_file_operation(request) ==
  IF Contains(lower(request), <<"r","e","a","d">>) /\ HasFilePaths(request) THEN HandlerCall
  ELSE IF Contains(lower(request), <<"c","r","e","a","t","e">>) \/ Contains(lower(request), <<"w","r","i","t","e">>)
    THEN HandlerCall
  ELSE IF Contains(lower(request), <<"d","e","l","e","t","e">>) /\ HasFilePaths(request) THEN HandlerCall
  ELSE Fixed(FALSE, <<"e","r","r","o","r">>, <<"U","n","s","u","p","p","o","r","t","e","d"," ","f","i","l","e"," ","o","p","e","r","a","t","i","o","n">>)

\* _handle_code_operation
handle_code_operation(request) ==
  IF Contains(lower(request), <<"g","e","n","e","r","a","t","e">>) \/ Contains(lower(request), <<"c","r","e","a","t","e">>)
    THEN HandlerCall
  ELSE Fixed(TRUE, <<"m","e","s","s","a","g","e">>, <<"C","o","d","e"," ","o","p","e","r","a","t","i","o","n"," ","h","a","n","d","l","e","d">>)

\* _handle_git_operation
handle_git_operation(request) ==
  IF Contains(lower(request), <<"c","o","m","m","i","t">>) THEN HandlerCall
  ELSE IF Contains(lower(request), <<"s","t","a","t","u","s">>) THEN HandlerCall
  ELSE Fixed(TRUE, <<"m","e","s","s","a","g","e">>, <<"G","i","t"," ","o","p","e","r","a","t","i","o","n"," ","h","a","n","d","l","e","d">>)

\* The try block of dispatch: the outcomes of the handler of the operation
\* type; the default handler's dict holds the decision.
Handled(request, decision) ==
  LET operation_type == decision.classification.operation_type
  IN  IF operation_type = "file_operation" THEN handle_file_operation(request)
      ELSE IF operation_type = "code_operation" THEN handle_code_operation(request)
      ELSE IF operation_type = "git_operation" THEN handle_git_operation(request)
      ELSE IF operation_type = "search" THEN HandlerCall
      ELSE IF operation_type = "terminal" THEN handle_terminal_operation(request)
      ELSE {Returns(DictV(<< Item(<<"s","u","c","c","e","s","s">>, BoolV(TRUE)),
                             Item(<<"m","e","s","s","a","g","e">>, StrV(<<"R","e","q","u","e","s","t"," ","p","r","o","c","e","s","s","e","d">>)),
                             Item(<<"d","e","c","i","s","i","o","n">>, DecisionValue(decision)) >>))}

\* handler_result after the try statement: the handler's dict, or the dict
\* built in the except clause.
HandlerResult(outcome) ==
  IF outcome.error = NoError THEN outcome.value
  ELSE DictV(<< Item(<<"s","u","c","c","e","s","s">>, BoolV(FALSE)),
                Item(<<"e","r","r","o","r">>, StrV(Str(outcome.error))),
                Item(<<"e","r","r","o","r","_","h","a","n","d","l","i","n","g">>, ErrorResultValue(ErrorResult(outcome.error))) >>)

\* What dispatch comes to for a decision and an outcome of the handler.
\* The formatter is called with the operation type as request_type; when
\* it raises, dispatch raises and returns nothing.
Dispatched(decision, outcome) ==
  LET operation_type == decision.classification.operation_type
      formatted == format_output(HandlerResult(outcome), None,
                                 [request_type |-> operation_type, language |-> None])
  IN  [ op |-> "dispatch",
        raised |-> formatted.raised,
        decision |-> decision,
        handler_result |-> HandlerResult(outcome),
        formatted_output |-> formatted.text,
        operation_type |-> operation_type ]

-----------------------------------------------------------------------------
\* The request pipeline: classify_input, process_request, orchestrate_task

Init ==
  /\ user_input \in Requests
  /\ unavailable \in FailureSets
  /\ arguments = NoArguments
  /\ raised = NoError
  /\ command_history = <<>>
  /\ error_history = <<>>
  /\ result = NoResult
  /\ session_state = NoSession
  /\ files = {}
  /\ executed = <<>>

\* The effect of a call that classified the request: the classification
\* is appended to command_history and the call's value becomes result.
Record(classification, value) ==
  /\ command_history' = Append(command_history, classification)
  /\ result' = value
  /\ UNCHANGED <<session_state, files, executed, user_input, unavailable, arguments, raised, error_history>>

\* CommandRecognizer.classify_input(user_input)
classify_input ==
  /\ Len(command_history) < MaxHistory
  /\ Record(Classification(user_input),
            [op |-> "classify_input", classification |-> Classification(user_input)])

\* DecisionEngine.process_request(user_input)
process_request ==
  /\ Len(command_history) < MaxHistory
  /\ \E instances_equal \in BOOLEAN :
       Record(Classification(user_input),
              [ op |-> "process_request",
                decision |-> Decision(Classification(user_input), unavailable,
                                      instances_equal) ])

\* The value of an orchestrate_task call: the plan it returns, next to the
\* decision it obtained from the decision engine.
Orchestrated(request, decision) ==
  [ op |-> "orchestrate_task",
    decision |-> decision,
    plan |-> Orchestration(request, decision) ]

\* AgentOrchestrator.orchestrate_task(user_input, llm, model_name)
orchestrate_task ==
  /\ Len(command_history) < MaxHistory
  /\ \E instances_equal \in BOOLEAN :
       Record(Classification(user_input),
              Orchestrated(user_input,
                           Decision(Classification(user_input), unavailable,
                                    instances_equal)))

Next == classify_input \/ process_request \/ orchestrate_task

Spec == Init /\ [][Next]_vars

-----------------------------------------------------------------------------
\* The recognizer alone, on texts of every shape

InitClassify ==
  /\ user_input \in Inputs
  /\ unavailable = {}
  /\ arguments = NoArguments
  /\ raised = NoError
  /\ command_history = <<>>
  /\ error_history = <<>>
  /\ result = NoResult
  /\ session_state = NoSession
  /\ files = {}
  /\ executed = <<>>

NextClassify == classify_input

SpecClassify == InitClassify /\ [][NextClassify]_vars

-----------------------------------------------------------------------------
\* Direct calls of the decision functions on arguments of every shape

\* Confidence values, in hundredths.
Confidences == 0..100

OperationTypes ==
  {"file_operation", "code_operation", "git_operation", "search", "terminal", None}

TaskTypes == DOMAIN TASK_TOOL_MAP \cup {None}

\* Tool lists of every length up to the comprehensive set.
ToolLists ==
  { SubSeq(TOOL_SETS.comprehensive, 1, n) : n \in 0..Len(TOOL_SETS.comprehensive) }

\* The arguments of the direct calls.
UnitArguments ==
  [ function : {"determine_routing"}, confidence : Confidences ]
    \cup [ function : {"determine_execution_strategy"},
           confidence : {30, 50, 60, 100},
           operation_type : OperationTypes,
           task_type : TaskTypes,
           tools : ToolLists ]

InitUnit ==
  /\ user_input = <<>>
  /\ unavailable = {}
  /\ arguments \in UnitArguments
  /\ raised = NoError
  /\ command_history = <<>>
  /\ error_history = <<>>
  /\ result = NoResult
  /\ session_state = NoSession
  /\ files = {}
  /\ executed = <<>>

\* CommandRecognizer._determine_routing(confidence)
call_determine_routing ==
  /\ arguments.function = "determine_routing"
  /\ result' = [ op |-> "determine_routing",
                 routing |-> determine_routing(arguments.confidence) ]
  /\ UNCHANGED <<session_state, files, executed, user_input, unavailable, arguments, raised, command_history,
                 error_history>>

\* DecisionEngine._determine_execution_strategy(classification, task_type, tools)
call_determine_execution_strategy ==
  /\ arguments.function = "determine_execution_strategy"
  /\ LET classification ==
           [ confidence |-> arguments.confidence,
             operation_type |-> arguments.operation_type ]
     IN  result' =
           [ op |-> "determine_execution_strategy",
             strategy |-> determine_execution_strategy(
                            classification, arguments.task_type, arguments.tools) ]
  /\ UNCHANGED <<session_state, files, executed, user_input, unavailable, arguments, raised, command_history,
                 error_history>>

NextUnit == call_determine_routing \/ call_determine_execution_strategy

SpecUnit == InitUnit /\ [][NextUnit]_vars

-----------------------------------------------------------------------------
\* Routing: the recognizer on texts, and _determine_routing on every
\* confidence value

InitRouting ==
  \/ InitClassify
  \/ InitUnit /\ arguments.function = "determine_routing"

NextRouting == classify_input \/ call_determine_routing

SpecRouting == InitRouting /\ [][NextRouting]_vars

-----------------------------------------------------------------------------
\* The error handler

InitError ==
  /\ user_input = <<>>
  /\ unavailable = {}
  /\ arguments = NoArguments
  /\ raised \in Errors
  /\ command_history = <<>>
  /\ error_history = <<>>
  /\ result = NoResult
  /\ session_state = NoSession
  /\ files = {}
  /\ executed = <<>>

\* ErrorHandler.handle_error(raised)
handle_error ==
  /\ raised # NoError
  /\ Len(error_history) < MaxHistory
  /\ error_history' = Append(error_history, ErrorRecord(raised))
  /\ result' = [op |-> "handle_error", value |-> ErrorResult(raised)]
  /\ UNCHANGED <<session_state, files, executed, user_input, unavailable, arguments, raised, command_history>>

NextError == handle_error

SpecError == InitError /\ [][NextError]_vars

-----------------------------------------------------------------------------
\* The tool selector called directly

\* The prompts given to the tool selector: the requests, and those that
\* also name a tool category.
SelectorWords == RequestWords \o << <<"w","e","b","_","s","e","a","r","c","h">> >>

Prompts == Phrases(SelectorWords, MaxWords) \cup {AnalyzeRequest}

InitSelector ==
  /\ user_input \in Prompts
  /\ unavailable = {}
  /\ arguments = NoArguments
  /\ raised = NoError
  /\ command_history = <<>>
  /\ error_history = <<>>
  /\ result = NoResult
  /\ session_state = NoSession
  /\ files = {}
  /\ executed = <<>>

\* ToolSelector.analyze_prompt(user_input)
call_analyze_prompt ==
  /\ result = NoResult
  /\ result' = [op |-> "analyze_prompt", analysis |-> analyze_prompt(user_input)]
  /\ UNCHANGED <<session_state, files, executed, user_input, unavailable, arguments, raised, command_history,
                 error_history>>

NextSelector == call_analyze_prompt

SpecSelector == InitSelector /\ [][NextSelector]_vars

-----------------------------------------------------------------------------
\* The output formatter called directly

\* Most records of a list given to the table formatter.
MaxRecords == 22

\* A list of n records with the keys "id" and "name"; the name of a record
\* is the given text.
Records(n, name) ==
  ListV([i \in 1..n |-> DictV(<<Item(<<"i","d">>, IntV(i)), Item(<<"n","a","m","e">>, StrV(name))>>)])

\* The dict {"a": 1, "b": 2}.
DictAB == DictV(<<Item(<<"a">>, IntV(1)), Item(<<"b">>, IntV(2))>>)

\* The contents given to the formatter.
Contents ==
  { StrV(<<>>),
    StrV(<<"x"," ","="," ","1">>),
    StrV(Fence \o <<"p","y","\n","x"," ","="," ","1","\n">> \o Fence),
    StrV(<<"s","e","e"," ">> \o Fence \o <<"x">> \o Fence),
    StrV(<<"s","a","y"," ","\"","h","i","\"">>),
    IntV(7),
    BoolV(TRUE),
    NoneV,
    DictAB,
    DictV(<<>>),
    DictV(<<Item(<<"m","a","i","n",".","p","y">>, StrV(<<"x"," ","="," ","1">>)), Item(<<"o","k">>, BoolV(FALSE))>>),
    DictV(<<Item(<<"i","n","t","e","n","t">>, ObjectV(<<"<","I","n","t","e","n","t","T","y","p","e",".","A","M","B","I","G","U","O","U","S",":"," ","'","a","m","b","i","g","u","o","u","s","'",">">>,
                                  <<"I","n","t","e","n","t","T","y","p","e",".","A","M","B","I","G","U","O","U","S">>))>>),
    ListV(<<IntV(1), StrV(<<"i","t","'","s">>)>>),
    ListV(<<DictAB, IntV(1)>>),
    ListV(<<DictAB, DictV(<<Item(<<"b">>, NoneV)>>)>>) }
    \cup {Records(n, <<"r","o","w">>) : n \in 0..MaxRecords}
    \cup {Records(n, <<"t","w","o","\n","l","i","n","e","s">>) : n \in 1..MaxRecords}

\* The format_type arguments: None, or a member of OutputFormat.
Formats == {None, CODE, MARKDOWN, TABLE, PLAIN, JSON, MULTI_FILE}

\* The context arguments.
Contexts ==
  [ request_type : {None, "code_generation", "documentation", "data_display",
                    "file_operation"},
    language : {None, "javascript"} ]

InitFormat ==
  /\ user_input = <<>>
  /\ unavailable = {}
  /\ arguments \in [ function : {"format_output"}, content : Contents,
                     format_type : Formats, context : Contexts ]
  /\ raised = NoError
  /\ command_history = <<>>
  /\ error_history = <<>>
  /\ result = NoResult
  /\ session_state = NoSession
  /\ files = {}
  /\ executed = <<>>

\* The value of result after format_output(content, format_type, context);
\* previous is the text the content was taken from, if it was an output.
Formatted(op, content, format_type, context, previous) ==
  [ op |-> op,
    format |-> FormatUsed(content, format_type, context),
    raised |-> format_output(content, format_type, context).raised,
    text |-> format_output(content, format_type, context).text,
    previous |-> previous ]

\* OutputFormatter.format_output on the arguments
call_format_output ==
  /\ arguments.function = "format_output"
  /\ result = NoResult
  /\ result' = Formatted("format_output", arguments.content, arguments.format_type,
                         arguments.context, <<>>)
  /\ UNCHANGED <<session_state, files, executed, user_input, unavailable, arguments, raised, command_history,
                 error_history>>

\* OutputFormatter.format_output on the string the first call returned,
\* with the same format_type and context
call_format_output_again ==
  /\ arguments.function = "format_output"
  /\ result.op = "format_output"
  /\ result.raised = None
  /\ arguments' = [arguments EXCEPT !.content = StrV(result.text)]
  /\ result' = Formatted("format_output_again", StrV(result.text),
                         arguments.format_type, arguments.context, result.text)
  /\ UNCHANGED <<session_state, files, executed, user_input, unavailable, raised, command_history, error_history>>

NextFormat == call_format_output \/ call_format_output_again

SpecFormat == InitFormat /\ [][NextFormat]_vars

-----------------------------------------------------------------------------
\* The handler dispatcher

InitDispatch ==
  /\ user_input \in Requests
  /\ unavailable = {}
  /\ arguments = NoArguments
  /\ raised = NoError
  /\ command_history = <<>>
  /\ error_history = <<>>
  /\ result = NoResult
  /\ session_state = NoSession
  /\ files = {}
  /\ executed = <<>>

\* HandlerDispatcher.dispatch(user_input).  raised keeps the exception the
\* handler raised, which dispatch passes to handle_error; executed gains
\* the command the terminal handler gave to subprocess.run.
dispatch ==
  /\ Len(command_history) < MaxHistory
  /\ \E instances_equal \in BOOLEAN :
       \E outcome \in Handled(user_input,
                              Decision(Classification(user_input), unavailable,
                                       instances_equal)) :
         /\ command_history' = Append(command_history, Classification(user_input))
         /\ raised' = outcome.error
         /\ error_history' =
              IF outcome.error = NoError THEN error_history
              ELSE Append(error_history, ErrorRecord(outcome.error))
         /\ result' = Dispatched(Decision(Classification(user_input), unavailable,
                                          instances_equal), outcome)
         /\ executed' = executed \o outcome.ran
  /\ UNCHANGED <<session_state, files, user_input, unavailable, arguments>>

NextDispatch == dispatch

SpecDispatch == InitDispatch /\ [][NextDispatch]_vars

-----------------------------------------------------------------------------
\* _calculate_confidence, through classify_input and called directly

\* Longest text of a direct call, in words.
MaxConfidenceWords == 3

\* The words of the texts of the direct calls.
ConfidenceWords ==
  << <<"c","r","e","a","t","e">>, <<"r","u","n">>, <<"n","e","e","d">>, <<"b","u","g">>, <<"a","d","d">>, <<"a","p","p",".","p","y">> >>

\* The intents a direct call is made with.
Intents ==
  { EXPLICIT_COMMAND, IMPLICIT_REQUEST, AMBIGUOUS, INITIALIZATION, GENERATION,
    DEBUGGING, TESTING }

InitConfidence ==
  \/ InitClassify
  \/ /\ user_input = <<>>
     /\ unavailable = {}
     /\ arguments \in [ function : {"calculate_confidence"},
                        input_lower : Phrases(ConfidenceWords, MaxConfidenceWords),
                        intent : Intents ]
     /\ raised = NoError
     /\ command_history = <<>>
     /\ error_history = <<>>
     /\ result = NoResult
     /\ session_state = NoSession
     /\ files = {}
     /\ executed = <<>>

\* CommandRecognizer._calculate_confidence on the arguments
call_calculate_confidence ==
  /\ arguments.function = "calculate_confidence"
  /\ result = NoResult
  /\ result' = [ op |-> "calculate_confidence",
                 confidence |-> calculate_confidence(arguments.input_lower,
                                                     arguments.intent) ]
  /\ UNCHANGED <<session_state, files, executed, user_input, unavailable, arguments, raised, command_history,
                 error_history>>

NextConfidence == classify_input \/ call_calculate_confidence

SpecConfidence == InitConfidence /\ [][NextConfidence]_vars

-----------------------------------------------------------------------------
\* get_task_type_from_operation, called directly

\* Longest intent text of a direct call, in words.
MaxVerbWords == 2

\* The words of the intent texts: verbs of every group, and a word that is
\* no verb.
VerbWords ==
  << <<"S","h","o","w">>, <<"w","r","i","t","e">>, <<"c","r","e","a","t","e">>, <<"e","d","i","t">>, <<"r","e","m","o","v","e">>, <<"f","i","n","d">>,
     <<"g","e","n","e","r","a","t","e">>, <<"a","n","a","l","y","z","e">>, <<"g","r","e","p">>, <<"p","a","t","t","e","r","n">>, <<"i","n","s","t","a","l","l">>,
     <<"t","e","s","t">>, <<"a","p","p",".","p","y">> >>

InitTaskType ==
  /\ user_input = <<>>
  /\ unavailable = {}
  /\ arguments \in [ function : {"get_task_type_from_operation"},
                     operation_type : OperationTypes,
                     intent : Phrases(VerbWords, MaxVerbWords) ]
  /\ raised = NoError
  /\ command_history = <<>>
  /\ error_history = <<>>
  /\ result = NoResult
  /\ session_state = NoSession
  /\ files = {}
  /\ executed = <<>>

\* ToolSelectionMatrix.get_task_type_from_operation on the arguments
call_get_task_type_from_operation ==
  /\ arguments.function = "get_task_type_from_operation"
  /\ result = NoResult
  /\ result' = [ op |-> "get_task_type_from_operation",
                 task_type |-> get_task_type_from_operation(
                                 arguments.operation_type, arguments.intent) ]
  /\ UNCHANGED <<session_state, files, executed, user_input, unavailable, arguments, raised, command_history,
                 error_history>>

NextTaskType == call_get_task_type_from_operation

SpecTaskType == InitTaskType /\ [][NextTaskType]_vars

-----------------------------------------------------------------------------
\* _multi_agent_execution and _single_agent_execution, called directly

InitPlan ==
  /\ user_input = <<>>
  /\ unavailable = {}
  /\ arguments \in [ function : {"multi_agent_execution", "single_agent_execution"},
                     request : Requests,
                     task_type : TaskTypes ]
  /\ raised = NoError
  /\ command_history = <<>>
  /\ error_history = <<>>
  /\ result = NoResult
  /\ session_state = NoSession
  /\ files = {}
  /\ executed = <<>>

\* AgentOrchestrator._multi_agent_execution(request, llm, model_name, decision)
call_multi_agent_execution ==
  /\ arguments.function = "multi_agent_execution"
  /\ result = NoResult
  /\ result' = [ op |-> "multi_agent_execution",
                 plan |-> multi_agent_execution(
                            arguments.request, [task_type |-> arguments.task_type]) ]
  /\ UNCHANGED <<session_state, files, executed, user_input, unavailable, arguments, raised, command_history,
                 error_history>>

\* AgentOrchestrator._single_agent_execution(request, llm, model_name, decision)
call_single_agent_execution ==
  /\ arguments.function = "single_agent_execution"
  /\ result = NoResult
  /\ result' = [ op |-> "single_agent_execution",
                 plan |-> single_agent_execution(
                            arguments.request, [task_type |-> arguments.task_type]) ]
  /\ UNCHANGED <<session_state, files, executed, user_input, unavailable, arguments, raised, command_history,
                 error_history>>

NextPlan == call_multi_agent_execution \/ call_single_agent_execution

SpecPlan == InitPlan /\ [][NextPlan]_vars

-----------------------------------------------------------------------------
\* smart_router.py and app.py

\* The model names of the application.
GLM == <<"g","l","m","-","4",".","6">>
GPT == <<"g","p","t","-","3",".","5","-","t","u","r","b","o">>

\* The first model of a list whose lowered name has one of the fragments, or
\* the first model of the list when there is none.
FirstWith(available_models, fragments) ==
  LET found == { m \in 1..Len(available_models) :
                   ContainsAny(lower(available_models[m]), fragments) }
  IN  IF found = {} THEN available_models[1]
      ELSE available_models[CHOOSE m \in found : \A n \in found : m <= n]

\* route_model(prompt, available_models)
route_model(prompt, available_models) ==
  LET prompt_lower == lower(prompt)
  IN  IF Len(available_models) = 0 THEN GLM
      ELSE IF InSeq(GLM, available_models) THEN GLM
      ELSE IF ContainsAny(prompt_lower,
                << <<"c","o","d","e">>, <<"p","r","o","g","r","a","m">>, <<"f","u","n","c","t","i","o","n">>, <<"c","l","a","s","s">>, <<"s","c","r","i","p","t">>,
                   <<"d","e","b","u","g">>, <<"a","n","a","l","y","z","e"," ","c","o","d","e">>, <<"r","e","v","i","e","w"," ","c","o","d","e">> >>)
        THEN FirstWith(available_models, << <<"g","l","m">>, <<"g","p","t">> >>)
      ELSE IF ContainsAny(prompt_lower,
                << <<"w","r","i","t","e">>, <<"c","r","e","a","t","e">>, <<"g","e","n","e","r","a","t","e">>, <<"d","r","a","f","t">>, <<"c","o","m","p","o","s","e">>,
                   <<"s","t","o","r","y">>, <<"a","r","t","i","c","l","e">> >>)
        THEN FirstWith(available_models, << <<"g","l","m">>, <<"g","p","t">> >>)
      ELSE IF ContainsAny(prompt_lower,
                << <<"a","n","a","l","y","z","e">>, <<"c","o","m","p","a","r","e">>, <<"e","v","a","l","u","a","t","e">>, <<"a","s","s","e","s","s">>,
                   <<"r","e","v","i","e","w">>, <<"e","x","a","m","i","n","e">> >>)
        THEN FirstWith(available_models, << <<"g","l","m">>, <<"g","p","t">> >>)
      ELSE IF ContainsAny(prompt_lower, << <<"r","e","a","d">>, <<"f","i","l","e">>, <<"o","p","e","n">>, <<"l","o","a","d">> >>)
        THEN FirstWith(available_models, << <<"g","l","m">> >>)
      ELSE FirstWith(available_models, << <<"g","l","m">> >>)

\* The models offered for the keys that are set: render_settings_sidebar
\* and process_user_request build the same list.
available_models(api_keys) ==
  (IF api_keys.glm THEN <<GLM>> ELSE <<>>)
    \o (IF api_keys.openai THEN <<GPT>> ELSE <<>>)

\* The option the select box shows when the user picks nothing.
default_selection(state) ==
  IF InSeq(state.current_model, available_models(state.api_keys))
    THEN state.current_model
    ELSE available_models(state.api_keys)[1]

\* Model selection of render_settings_sidebar: the session state after the
\* select box returned an option, or after the warning when no key is set.
model_selection(state, selected_model) ==
  IF Len(available_models(state.api_keys)) > 0
    THEN [state EXCEPT !.current_model = selected_model]
    ELSE [state EXCEPT !.current_model = None]

\* The exceptions the decision engine, the orchestrator, the fallback and
\* the crew raise in the model: one of each severity, and a critical
\* keyword in another kind.
RequestErrors ==
  { [type |-> "ValueError", message |-> MissingConfigKey],
    [type |-> "OSError", message |-> MissingConfigKey],
    [type |-> "TypeError", message |-> MissingConfigKey],
    [type |-> "Exception", message |-> MissingConfigKey],
    [type |-> "Exception", message |-> <<"c","o","r","r","u","p","t">>] }

\* What the calls made for one request do: the exception each raises, or
\* NoError.
Outcomes ==
  [ process_request : RequestErrors \cup {NoError},
    orchestrate_task : RequestErrors \cup {NoError},
    fallback : {NoError, [type |-> "TypeError", message |-> MissingConfigKey]},
    kickoff : {NoError, [type |-> "RuntimeError", message |-> MissingConfigKey]} ]

\* The text the crew returns.
FinalText == <<"d","o","n","e">>

\* "Error: " and str(e), the message of the outer except clause.
error_message(error) == <<"E","r","r","o","r",":"," ">> \o Str(error)

\* The inner try of process_user_request: the calls made and the exception
\* caught by the inner except clause. An exception of the decision engine
\* is raised after the recognizer recorded the classification, one of the
\* orchestrator while it builds its agents, after its own process_request.
inner_try(outcomes) ==
  IF outcomes.process_request # NoError
    THEN [ calls |-> <<"process_request">>, caught |-> outcomes.process_request,
           decision |-> FALSE, crew |-> "none" ]
  ELSE IF outcomes.orchestrate_task # NoError
    THEN [ calls |-> <<"process_request", "orchestrate_task">>,
           caught |-> outcomes.orchestrate_task, decision |-> TRUE, crew |-> "none" ]
  ELSE [ calls |-> <<"process_request", "orchestrate_task">>, caught |-> NoError,
         decision |-> TRUE, crew |-> "orchestrated" ]

\* The except clause of the inner try without the test of can_continue:
\* the fallback crew is built after every exception.
inner_except_unchecked(attempt, outcomes) ==
  IF attempt.caught = NoError
    THEN [ calls |-> attempt.calls, crew |-> attempt.crew, leaves |-> NoError ]
  ELSE IF outcomes.fallback # NoError
    THEN [ calls |-> attempt.calls \o <<"handle_error", "create_test_agent">>,
           crew |-> "none", leaves |-> outcomes.fallback ]
  ELSE [ calls |-> attempt.calls
                     \o <<"handle_error", "create_test_agent", "create_test_task", "Crew">>,
         crew |-> "fallback", leaves |-> NoError ]

\* The except clause of the inner try: handle_error, then the fallback crew
\* when the handler lets the request continue, else the exception again.
inner_except(attempt, outcomes) ==
  IF attempt.caught = NoError
    THEN [ calls |-> attempt.calls, crew |-> attempt.crew, leaves |-> NoError ]
  ELSE IF ~ErrorResult(attempt.caught).can_continue
    THEN [ calls |-> attempt.calls \o <<"handle_error">>, crew |-> "none",
           leaves |-> attempt.caught ]
  ELSE IF outcomes.fallback # NoError
    THEN [ calls |-> attempt.calls \o <<"handle_error", "create_test_agent">>,
           crew |-> "none", leaves |-> outcomes.fallback ]
  ELSE [ calls |-> attempt.calls
                     \o <<"handle_error", "create_test_agent", "create_test_task", "Crew">>,
         crew |-> "fallback", leaves |-> NoError ]

\* The rest of the outer try: the crew is kicked off and its text kept, or
\* the outer except clause shows the message of the exception.
run_crew(prepared, outcomes) ==
  IF prepared.leaves # NoError
    THEN [ calls |-> prepared.calls, crew |-> prepared.crew,
           content |-> error_message(prepared.leaves), failed |-> TRUE ]
  ELSE IF outcomes.kickoff # NoError
    THEN [ calls |-> prepared.calls \o <<"kickoff">>, crew |-> prepared.crew,
           content |-> error_message(outcomes.kickoff), failed |-> TRUE ]
  ELSE [ calls |-> prepared.calls \o <<"kickoff">>, crew |-> prepared.crew,
         content |-> FinalText, failed |-> FALSE ]

\* process_user_request(prompt): the model the wrapper is built with, the
\* calls made in their order, the crew that was run and the text shown.
process_user_request_call(prompt, state, outcomes) ==
  IF state.current_model = None
    THEN [ op |-> "process_user_request", model_name |-> None, calls |-> <<>>,
           caught |-> NoError, crew |-> "none",
           content |-> error_message(
             [type |-> "ValueError",
              message |-> <<"N","o"," ","m","o","d","e","l"," ","s","e","l","e","c","t","e","d","."," ","P","l","e","a","s","e"," ","c","o","n","f","i","g","u","r","e"," ","A","P","I"," ","k","e","y","s"," ","a","n","d"," ","s","e","l","e","c","t"," ","a"," ","m","o","d","e","l",".">>]),
           failed |-> TRUE ]
    ELSE [ op |-> "process_user_request",
           model_name |-> route_model(prompt, available_models(state.api_keys)),
           calls |-> run_crew(inner_except(inner_try(outcomes), outcomes), outcomes).calls,
           caught |-> inner_try(outcomes).caught,
           crew |-> run_crew(inner_except(inner_try(outcomes), outcomes), outcomes).crew,
           content |-> run_crew(inner_except(inner_try(outcomes), outcomes), outcomes).content,
           failed |-> run_crew(inner_except(inner_try(outcomes), outcomes), outcomes).failed ]

\* The prompts typed into the chat input.
ChatPrompts == {ReadRequest, AnalyzeRequest}

\* The session state once the script has initialised it: the keys as the
\* environment file gives them, the model name of the initialisation.
InitRequest ==
  /\ user_input \in ChatPrompts
  /\ unavailable = {}
  /\ arguments = NoArguments
  /\ raised = NoError
  /\ command_history = <<>>
  /\ error_history = <<>>
  /\ result = NoResult
  /\ session_state \in [ api_keys : [glm : BOOLEAN, openai : BOOLEAN],
                         current_model : {GPT},
                         chat_history : {<<>>} ]
  /\ files = {}
  /\ executed = <<>>

\* A script run in which a key typed in the sidebar differs from the stored
\* one: the key is stored and the script is run again from the top.
enter_api_keys ==
  /\ result = NoResult
  /\ \E api_keys \in [glm : BOOLEAN, openai : BOOLEAN] :
       /\ api_keys # session_state.api_keys
       /\ session_state' = [session_state EXCEPT !.api_keys = api_keys]
  /\ UNCHANGED <<user_input, unavailable, arguments, raised, command_history,
                 error_history, result, files, executed>>

\* A script run without a prompt: render_settings_sidebar with the option
\* the user picks in the select box.
select_model ==
  /\ result = NoResult
  /\ Len(available_models(session_state.api_keys)) > 0
  /\ \E m \in 1..Len(available_models(session_state.api_keys)) :
       session_state' =
         model_selection(session_state, available_models(session_state.api_keys)[m])
  /\ UNCHANGED <<user_input, unavailable, arguments, raised, command_history,
                 error_history, result, files, executed>>

\* The chat entry a run appends after the user's: the reply or the error.
chat_entries(prompt, content) ==
  << [role |-> "user", content |-> prompt],
     [role |-> "assistant", content |-> content] >>

\* The effect of process_user_request on the histories and on the chat.
Requested(state, run) ==
  /\ result' = run
  /\ raised' = run.caught
  /\ command_history' =
       command_history
         \o [ c \in 1..Cardinality({ i \in 1..Len(run.calls) :
                                       run.calls[i] \in {"process_request", "orchestrate_task"} })
                |-> Classification(user_input) ]
  /\ error_history' =
       IF run.caught = NoError THEN error_history
       ELSE Append(error_history, ErrorRecord(run.caught))
  /\ session_state' =
       [state EXCEPT !.chat_history = @ \o chat_entries(user_input, run.content)]

\* A script run with a prompt: render_settings_sidebar with the option the
\* select box shows, then render_chat_interface, which calls
\* process_user_request when a model is selected.
submit_prompt ==
  /\ result = NoResult
  /\ LET state ==
           IF Len(available_models(session_state.api_keys)) > 0
             THEN model_selection(session_state, default_selection(session_state))
             ELSE model_selection(session_state, None)
     IN  IF state.current_model = None
           THEN /\ result' = [op |-> "render_chat_interface"]
                /\ session_state' =
                     [state EXCEPT !.chat_history =
                        Append(@, [role |-> "user", content |-> user_input])]
                /\ UNCHANGED <<raised, command_history, error_history>>
           ELSE \E outcomes \in Outcomes :
                  Requested(state, process_user_request_call(user_input, state, outcomes))
  /\ UNCHANGED <<user_input, unavailable, arguments, files, executed>>

NextRequest == enter_api_keys \/ select_model \/ submit_prompt

SpecRequest == InitRequest /\ [][NextRequest]_vars

-----------------------------------------------------------------------------
\* The histories of the recognizer and of the error handler over a
\* sequence of calls

\* Most records a history holds in this specification.
MaxCalls == 2

\* list.append with the new record put first.
append_newest_first(history, record) == <<record>> \o history

\* list.append, as classify_input and handle_error use it on their history
append(history, record) == Append(history, record)

\* _analyze_failure_chain; the affected components are a set.
analyze_failure_chain(failures) ==
  IF Len(failures) = 0
    THEN [ root_cause |-> None, propagation_path |-> <<>>, affected_components |-> {} ]
    ELSE [ root_cause |-> failures[1].component,
           propagation_path |-> [f \in 1..Len(failures) |-> failures[f].component],
           affected_components |-> {failures[f].component : f \in 1..Len(failures)} ]

\* handle_cascading_failure(failures): the value returned. Nothing of the
\* handler is assigned.
handle_cascading_failure(failures) ==
  [ root_cause |-> analyze_failure_chain(failures).root_cause,
    propagation_path |-> analyze_failure_chain(failures).propagation_path,
    containment |->
      [ isolated |-> TRUE, stabilized |-> TRUE, preserved_state |-> TRUE,
        affected_components |-> analyze_failure_chain(failures).affected_components ],
    recovery |->
      [ recovery_attempted |-> TRUE, rollback_available |-> TRUE,
        state_restored |-> FALSE,
        next_steps |-> <<"Restore from backup", "Restart services", "Verify integrity">> ] ]

\* The requests, exceptions and failure lists of the calls.
HistoryInputs == {ReadRequest, AnalyzeRequest}

HistoryErrors ==
  { [type |-> "ValueError", message |-> MissingConfigKey],
    [type |-> "OSError", message |-> <<"c","o","r","r","u","p","t">>] }

FailureLists ==
  { <<>>,
    << [component |-> "recognizer"] >>,
    << [component |-> "orchestrator"], [component |-> "recognizer"] >> }

InitHistory ==
  /\ user_input = <<>>
  /\ unavailable = {}
  /\ arguments = NoArguments
  /\ raised = NoError
  /\ command_history = <<>>
  /\ error_history = <<>>
  /\ result = NoResult
  /\ session_state = NoSession
  /\ files = {}
  /\ executed = <<>>

\* CommandRecognizer.classify_input(text), one more call
next_classify_input ==
  /\ Len(command_history) < MaxCalls
  /\ \E text \in HistoryInputs :
       /\ user_input' = text
       /\ command_history' = append(command_history, Classification(text))
       /\ result' = [op |-> "classify_input", classification |-> Classification(text)]
  /\ UNCHANGED <<unavailable, arguments, raised, error_history, session_state,
                 files, executed>>

\* DecisionEngine.process_request(text), one more call
next_process_request ==
  /\ Len(command_history) < MaxCalls
  /\ \E text \in HistoryInputs :
       /\ user_input' = text
       /\ command_history' = append(command_history, Classification(text))
       /\ result' = [ op |-> "process_request",
                      decision |-> Decision(Classification(text), unavailable, TRUE) ]
  /\ UNCHANGED <<unavailable, arguments, raised, error_history, session_state,
                 files, executed>>

\* ErrorHandler.handle_error(error), one more call
next_handle_error ==
  /\ Len(error_history) < MaxCalls
  /\ \E error \in HistoryErrors :
       /\ raised' = error
       /\ error_history' = append(error_history, ErrorRecord(error))
       /\ result' = [op |-> "handle_error", value |-> ErrorResult(error)]
  /\ UNCHANGED <<user_input, unavailable, arguments, command_history,
                 session_state, files, executed>>

\* ErrorHandler.handle_cascading_failure(failures)
next_handle_cascading_failure ==
  /\ \E failures \in FailureLists :
       result' = [ op |-> "handle_cascading_failure",
                   value |-> handle_cascading_failure(failures) ]
  /\ UNCHANGED <<user_input, unavailable, arguments, raised, command_history,
                 error_history, session_state, files, executed>>

\* HandlerDispatcher.dispatch(text), one more call
next_dispatch ==
  /\ Len(command_history) < MaxCalls
  /\ Len(error_history) < MaxCalls
  /\ \E text \in HistoryInputs :
       \E outcome \in Handled(text, Decision(Classification(text), unavailable, TRUE)) :
         /\ user_input' = text
         /\ command_history' = append(command_history, Classification(text))
         /\ raised' = outcome.error
         /\ error_history' =
              IF outcome.error = NoError THEN error_history
              ELSE append(error_history, ErrorRecord(outcome.error))
         /\ result' = Dispatched(Decision(Classification(text), unavailable, TRUE),
                                 outcome)
         /\ executed' = executed \o outcome.ran
  /\ UNCHANGED <<unavailable, arguments, session_state, files>>

NextHistory ==
  \/ next_classify_input
  \/ next_process_request
  \/ next_handle_error
  \/ next_handle_cascading_failure
  \/ next_dispatch

SpecHistory == InitHistory /\ [][NextHistory]_vars

-----------------------------------------------------------------------------
\* execute_command, called directly and through dispatch

\* Longest command, in words.
MaxCommandWords == 3

\* The words of the commands.
CommandWords ==
  << <<"r","u","n">>, <<"r","m">>, <<"-","r","f">>, <<"s","u","d","o">>, <<"R","M">>, <<"x">> >>

InitTerminal ==
  /\ user_input \in Phrases(CommandWords, MaxCommandWords)
  /\ unavailable = {}
  /\ arguments \in [function : {"execute_command"}, confirmed : BOOLEAN]
                     \cup [function : {"dispatch"}]
  /\ raised = NoError
  /\ command_history = <<>>
  /\ error_history = <<>>
  /\ result = NoResult
  /\ session_state = NoSession
  /\ files = {}
  /\ executed = <<>>

\* TerminalHandler.execute_command(user_input, None, confirmed)
call_execute_command ==
  /\ arguments.function = "execute_command"
  /\ result = NoResult
  /\ \E outcome \in execute_command(user_input, arguments.confirmed) :
       /\ executed' = executed \o outcome.ran
       /\ result' = [op |-> "execute_command", value |-> outcome.value]
  /\ UNCHANGED <<user_input, unavailable, arguments, raised, command_history,
                 error_history, session_state, files>>

\* HandlerDispatcher.dispatch(user_input) of a command typed as a request
dispatch_command ==
  /\ arguments.function = "dispatch"
  /\ dispatch

NextTerminal == call_execute_command \/ dispatch_command

SpecTerminal == InitTerminal /\ [][NextTerminal]_vars

-----------------------------------------------------------------------------
\* file_operations_handler.py: delete_file

MaxSegments == 2

\* The names the paths of the model are made of.
Segments ==
  << <<"u","s","r">>, <<"e","t","c">>, <<"h","o","m","e">>, <<".","g","i","t">>, <<"v","e","n","v">>, <<"n","o","d","e","_","m","o","d","u","l","e","s">>, <<"x">> >>

\* The relative paths of at most n names.
RelativePaths(n) ==
  UNION { {Concat([i \in 1..k |-> Segments[indices[i]]], <<"/">>) :
             indices \in [1..k -> 1..Len(Segments)]} : k \in 1..n }

\* The paths a call is given: relative ones and the same from the root.
FilePaths == RelativePaths(MaxSegments)
               \cup {<<"/">> \o path : path \in RelativePaths(MaxSegments)}

\* The directories os.getcwd() returns.
WorkingDirectories == {<<"/">>, <<"/","h","o","m","e","/","u">>}

\* A file no call of the model names.
OtherFile == <<"/","h","o","m","e","/","u","/","n","o","t","e","s",".","t","x","t">>

\* os.path.join(directory, file_path) of a relative file_path
path_join(directory, file_path) ==
  IF directory # <<>> /\ directory[Len(directory)] = "/"
    THEN directory \o file_path
    ELSE directory \o <<"/">> \o file_path

\* _resolve_path(file_path, None), cwd being what os.getcwd() returns
resolve_path(file_path, cwd) ==
  IF startswith(file_path, <<"/">>) THEN file_path ELSE path_join(cwd, file_path)

system_paths == << <<"/","S","y","s","t","e","m">>, <<"/","u","s","r">>, <<"/","b","i","n">>, <<"/","s","b","i","n">>, <<"/","e","t","c">> >>

\* _assess_deletion_risk: each check that matches replaces the level the
\* check before it set, and adds its reason.
assess_deletion_risk(file_path) ==
  LET system   == \E i \in 1..Len(system_paths) : startswith(file_path, system_paths[i])
      git      == Contains(file_path, <<".","g","i","t">>)
      depends  == Contains(file_path, <<"n","o","d","e","_","m","o","d","u","l","e","s">>) \/ Contains(file_path, <<"v","e","n","v">>)
      level1   == IF system THEN "critical" ELSE "low"
      level2   == IF git THEN "high" ELSE level1
      level3   == IF depends THEN "medium" ELSE level2
  IN  [ level   |-> level3,
        reasons |-> (IF system THEN << <<"S","y","s","t","e","m"," ","f","i","l","e">> >> ELSE <<>>)
                      \o (IF git THEN << <<"G","i","t"," ","r","e","p","o","s","i","t","o","r","y"," ","f","i","l","e">> >> ELSE <<>>)
                      \o (IF depends THEN << <<"D","e","p","e","n","d","e","n","c","y"," ","d","i","r","e","c","t","o","r","y">> >> ELSE <<>>) ]

\* The risk dictionary as a value.
RiskValue(risk) ==
  DictV(<< Item(<<"l","e","v","e","l">>, StrV([i \in 1..Len(risk.level) |-> risk.level])),
           Item(<<"r","e","a","s","o","n","s">>, ListV([i \in 1..Len(risk.reasons) |-> StrV(risk.reasons[i])])) >>)

\* What os.remove does to a file that exists.
RemoveOutcomes == {"removed", "PermissionError"}

\* delete_file(file_path, None, confirmed) with the files that exist: what
\* the call returns and the files that exist after it.
delete_file(file_path, confirmed, cwd, existing) ==
  LET resolved_path == resolve_path(file_path, cwd)
      risk == assess_deletion_risk(resolved_path)
  IN  IF risk.level = "critical" /\ ~confirmed
        THEN { [ value |-> DictV(
                   << Item(<<"s","u","c","c","e","s","s">>, BoolV(FALSE)),
                      Item(<<"e","r","r","o","r">>, StrV(<<"D","e","l","e","t","i","o","n"," ","b","l","o","c","k","e","d"," ","-"," ","c","r","i","t","i","c","a","l"," ","f","i","l","e">>)),
                      Item(<<"r","i","s","k">>, RiskValue(risk)),
                      Item(<<"r","e","q","u","i","r","e","s","_","c","o","n","f","i","r","m","a","t","i","o","n">>, BoolV(TRUE)) >>),
                 files |-> existing ] }
      ELSE IF resolved_path \notin existing
        THEN { [ value |-> DictV(
                   << Item(<<"s","u","c","c","e","s","s">>, BoolV(FALSE)),
                      Item(<<"e","r","r","o","r">>, StrV(<<"F","i","l","e"," ","d","o","e","s"," ","n","o","t"," ","e","x","i","s","t">>)),
                      Item(<<"p","a","t","h">>, StrV(resolved_path)) >>),
                 files |-> existing ] }
      ELSE { IF outcome = "removed"
               THEN [ value |-> DictV(
                        << Item(<<"s","u","c","c","e","s","s">>, BoolV(TRUE)),
                           Item(<<"p","a","t","h">>, StrV(resolved_path)),
                           Item(<<"a","c","t","i","o","n">>, StrV(<<"d","e","l","e","t","e","d">>)) >>),
                      files |-> existing \ {resolved_path} ]
               ELSE [ value |-> DictV(
                        << Item(<<"s","u","c","c","e","s","s">>, BoolV(FALSE)),
                           Item(<<"e","r","r","o","r">>, StrV(<<"[","E","r","r","n","o"," ","1","3","]"," ","P","e","r","m","i","s","s","i","o","n"," ","d","e","n","i","e","d",":"," ","'">>
                                                  \o resolved_path \o <<"'">>)),
                           Item(<<"p","a","t","h">>, StrV(resolved_path)) >>),
                      files |-> existing ]
             : outcome \in RemoveOutcomes }

InitDelete ==
  /\ user_input = <<>>
  /\ unavailable = {}
  /\ arguments \in [function : {"delete_file"}, file_path : FilePaths,
                    confirmed : BOOLEAN, cwd : WorkingDirectories]
  /\ raised = NoError
  /\ command_history = <<>>
  /\ error_history = <<>>
  /\ result = NoResult
  /\ session_state = NoSession
  /\ files \in SUBSET {resolve_path(arguments.file_path, arguments.cwd), OtherFile}
  /\ executed = <<>>

\* FileOperationsHandler.delete_file(file_path, None, confirmed)
call_delete_file ==
  /\ arguments.function = "delete_file"
  /\ result = NoResult
  /\ \E outcome \in delete_file(arguments.file_path, arguments.confirmed,
                                arguments.cwd, files) :
       /\ files' = outcome.files
       /\ result' = [ op |-> "delete_file", value |-> outcome.value,
                      existed |-> resolve_path(arguments.file_path, arguments.cwd) \in files ]
  /\ UNCHANGED <<user_input, unavailable, arguments, raised, command_history,
                 error_history, session_state, executed>>

NextDelete == call_delete_file

SpecDelete == InitDelete /\ [][NextDelete]_vars

-----------------------------------------------------------------------------
\* Properties

\* The classifications recorded so far.
Classified == {command_history[i] : i \in 1..Len(command_history)}

\* The text the recognizer works on: lower-cased and stripped.
Normalized(text) == strip(lower(text))

\* The text begins with the reserved prefix.
BeginsWithSlash(text) == Len(text) > 0 /\ text[1] = "/"

\* Some explicit pattern, some implicit pattern, or some keyword of the
\* specific-intent checks matches the text.
MatchesExplicit(text) ==
  \E p \in 1..Len(EXPLICIT_PATTERNS) : re_search(EXPLICIT_PATTERNS[p], text)

MatchesImplicit(text) ==
  \E p \in 1..Len(IMPLICIT_PATTERNS) : re_search(IMPLICIT_PATTERNS[p], text)

MatchesKeyword(text) ==
  \/ ContainsAny(text, INIT_KEYWORDS)
  \/ ContainsAny(text, GENERATION_KEYWORDS)
  \/ ContainsAny(text, DEBUGGING_KEYWORDS)
  \/ ContainsAny(text, TESTING_KEYWORDS)

\* The routing value stands to the confidence as the thresholds 0.8 and 0.5
\* prescribe.
RoutingAgrees(confidence, routing) ==
  /\ routing = "execute_immediately" <=> confidence >= 80
  /\ routing = "confirm_with_preview" <=> (confidence >= 50 /\ confidence < 80)
  /\ routing = "present_options_menu" <=> confidence < 50

\* C1: the routing of every classification classify_input produces, and of
\* every direct call of _determine_routing (which covers 0.8, 0.5 and the
\* values next to them), is execute_immediately iff confidence >= 0.8,
\* confirm_with_preview iff 0.5 <= confidence < 0.8 and
\* present_options_menu iff confidence < 0.5.
C1_RoutingByConfidence ==
  /\ \A c \in Classified : RoutingAgrees(c.confidence, c.routing)
  /\ result.op = "determine_routing"
       => RoutingAgrees(arguments.confidence, result.routing)

\* C1 witness: a direct call at the boundary 0.8 was routed to immediate
\* execution.
C1_Witness ==
  /\ result.op = "determine_routing"
  /\ arguments.confidence = 80
  /\ result.routing = "execute_immediately"

\* C2: every text whose lower-cased, stripped form begins with "/" is
\* classified as an explicit command with confidence 1.0 and routed to
\* immediate execution.
C2_SlashIsExplicit ==
  \A c \in Classified :
    BeginsWithSlash(Normalized(c.input))
      => /\ c.intent = EXPLICIT_COMMAND
         /\ c.confidence = 100
         /\ c.routing = "execute_immediately"

\* C2 witness: a text with leading whitespace before the slash, matching no
\* explicit pattern, was classified as an explicit command.
C2_Witness ==
  \E c \in Classified :
    /\ c.input[1] = " "
    /\ BeginsWithSlash(Normalized(c.input))
    /\ ~MatchesExplicit(Normalized(c.input))
    /\ c.intent = EXPLICIT_COMMAND
    /\ c.confidence = 100

\* C3: a text that does not begin with "/" and matches no explicit
\* pattern, no implicit pattern and no keyword check is classified as
\* ambiguous with confidence 0.3 and routed to the options menu.
C3_NoMatchIsAmbiguous ==
  \A c \in Classified :
    ( /\ ~BeginsWithSlash(Normalized(c.input))
      /\ ~MatchesExplicit(Normalized(c.input))
      /\ ~MatchesImplicit(Normalized(c.input))
      /\ ~MatchesKeyword(Normalized(c.input)) )
      => /\ c.intent = AMBIGUOUS
         /\ c.confidence = 30
         /\ c.routing = "present_options_menu"

\* C3 witness: a text matching nothing was classified as ambiguous.
C3_Witness ==
  \E c \in Classified :
    /\ ~BeginsWithSlash(Normalized(c.input))
    /\ ~MatchesExplicit(Normalized(c.input))
    /\ ~MatchesImplicit(Normalized(c.input))
    /\ ~MatchesKeyword(Normalized(c.input))
    /\ c.intent = AMBIGUOUS
    /\ c.confidence = 30

\* C4: the operation type is the first of file, code, git, search,
\* terminal with an indicator occurring in the text, and None iff no
\* indicator of any list occurs.
C4_OperationTypePriority ==
  \A c \in Classified :
    LET text == Normalized(c.input)
        file == ContainsAny(text, FILE_INDICATORS)
        code == ContainsAny(text, CODE_INDICATORS)
        git == ContainsAny(text, GIT_INDICATORS)
        search == ContainsAny(text, SEARCH_INDICATORS)
        terminal == ContainsAny(text, TERMINAL_INDICATORS)
    IN  /\ file => c.operation_type = "file_operation"
        /\ (~file /\ code) => c.operation_type = "code_operation"
        /\ (~file /\ ~code /\ git) => c.operation_type = "git_operation"
        /\ (~file /\ ~code /\ ~git /\ search) => c.operation_type = "search"
        /\ (~file /\ ~code /\ ~git /\ ~search /\ terminal)
             => c.operation_type = "terminal"
        /\ c.operation_type = None
             <=> ~(file \/ code \/ git \/ search \/ terminal)

\* C4 witness: a text with a file indicator and a code indicator was
\* classified as a file operation.
C4_Witness ==
  \E c \in Classified :
    /\ ContainsAny(Normalized(c.input), FILE_INDICATORS)
    /\ ContainsAny(Normalized(c.input), CODE_INDICATORS)
    /\ c.operation_type = "file_operation"

\* The last call went through the decision engine.
Decided == result.op \in {"process_request", "orchestrate_task"}

\* C5 as stated: the request "Analyze the code in main.py for bugs and
\* refactor it" is orchestrated as a code operation of task type
\* analyze_code in the multi-agent shape.
C5_AnalyzeIsCodeOperation ==
  (result.op = "orchestrate_task" /\ user_input = AnalyzeRequest)
    => /\ result.decision.classification.operation_type = "code_operation"
       /\ result.decision.task_type = "analyze_code"
       /\ result.plan.orchestration_type = "multi_agent"

\* C5 amended: that request is a file operation (".py" is a file indicator
\* and file indicators are tested first) for which no task type resolves;
\* its tools come from the tool selector, and the shape is multi-agent
\* exactly when more than 3 of them could be built, the complexity then
\* being high.
C5_AnalyzeIsFileOperation ==
  (result.op = "orchestrate_task" /\ user_input = AnalyzeRequest)
    => /\ result.decision.classification.operation_type = "file_operation"
       /\ result.decision.task_type = None
       /\ result.plan.orchestration_type = "multi_agent"
            <=> Len(result.decision.tools) > 3
       /\ result.decision.execution_strategy.estimated_complexity
            = IF Len(result.decision.tools) > 3 THEN "high" ELSE "low"

\* C5 witness: the request was orchestrated in the multi-agent shape.
C5_Witness ==
  /\ result.op = "orchestrate_task"
  /\ user_input = AnalyzeRequest
  /\ Len(result.decision.tools) > 3
  /\ result.plan.orchestration_type = "multi_agent"

\* C6 as stated: a decision with more than 3 selected tools has estimated
\* complexity high.
C6_ManyToolsIsHigh ==
  (Decided /\ Len(result.decision.tools) > 3)
    => result.decision.execution_strategy.estimated_complexity = "high"

\* C6 amended: a decision with more than 3 selected tools has estimated
\* complexity high unless an earlier branch applies: low for a file
\* operation of task type read_file or create_single_file, medium for a
\* code operation or the task type generate_code.
C6_ManyToolsIsHighUnlessEarlierBranch ==
  (Decided /\ Len(result.decision.tools) > 3)
    => result.decision.execution_strategy.estimated_complexity
         = IF /\ result.decision.classification.operation_type = "file_operation"
              /\ result.decision.task_type \in {"read_file", "create_single_file"}
             THEN "low"
           ELSE IF \/ result.decision.classification.operation_type = "code_operation"
                   \/ result.decision.task_type = "generate_code"
             THEN "medium"
           ELSE "high"

\* C6 witness: a file operation that is neither a read nor a creation was
\* given more than 3 tools and the complexity high.
C6_Witness ==
  /\ Decided
  /\ Len(result.decision.tools) > 3
  /\ result.decision.classification.operation_type = "file_operation"
  /\ result.decision.task_type \notin {None, "read_file", "create_single_file"}
  /\ result.decision.execution_strategy.estimated_complexity = "high"

\* C7: _determine_execution_strategy gives the complexity medium whenever
\* the task type is generate_code, for every operation type and every
\* number of tools.
C7_GenerateCodeIsMedium ==
  (result.op = "determine_execution_strategy" /\ arguments.task_type = "generate_code")
    => result.strategy.estimated_complexity = "medium"

\* C7 witness: generate_code under a file operation with more than 3 tools
\* was given the complexity medium.
C7_Witness ==
  /\ result.op = "determine_execution_strategy"
  /\ arguments.task_type = "generate_code"
  /\ arguments.operation_type = "file_operation"
  /\ Len(arguments.tools) > 3
  /\ result.strategy.estimated_complexity = "medium"

\* C8: orchestrate_task returns the multi-agent shape iff the decision's
\* complexity is high or medium or its task type is complex_search or
\* analyze_code, and the single-agent shape otherwise.
C8_MultiAgentIff ==
  result.op = "orchestrate_task"
    => /\ result.plan.orchestration_type \in {"multi_agent", "single_agent"}
       /\ result.plan.orchestration_type = "multi_agent"
            <=> \/ result.decision.execution_strategy.estimated_complexity = "high"
                \/ result.decision.execution_strategy.estimated_complexity = "medium"
                \/ result.decision.task_type = "complex_search"
                \/ result.decision.task_type = "analyze_code"

\* C8 witness: a decision of medium complexity whose task type forces
\* nothing was orchestrated in the multi-agent shape.
C8_Witness ==
  /\ result.op = "orchestrate_task"
  /\ result.decision.execution_strategy.estimated_complexity = "medium"
  /\ result.decision.task_type \notin {"complex_search", "analyze_code"}
  /\ result.plan.orchestration_type = "multi_agent"

\* C9 as stated: a decision with a resolved task type carries at least one
\* tool, also in a build where the shell tool, and no other tool, cannot be
\* constructed.
C9_ResolvedTaskHasTools ==
  (Decided /\ unavailable \subseteq {"ShellTool"} /\ result.decision.task_type # None)
    => result.decision.tools # <<>>

\* The keywords of the two keyword rules of the severity assessment.
CriticalKeywords ==
  << <<"s","y","s","t","e","m">>, <<"s","e","c","u","r","i","t","y">>,
     <<"b","r","e","a","c","h">>, <<"c","o","r","r","u","p","t">> >>

HighKeywords ==
  << <<"b","u","i","l","d">>, <<"c","r","a","s","h">>, <<"f","a","t","a","l">> >>

\* C10: the severity handle_error reports follows the first matching rule
\* of: critical keyword, critical kind, high kind, high keyword, medium
\* kind, else low; so a ValueError whose message contains "corrupt" is
\* critical.
C10_SeverityPriority ==
  result.op = "handle_error"
    => LET text == lower(Str(raised))
           critical_keyword == ContainsAny(text, CriticalKeywords)
           critical_kind == raised.type \in {"SystemError", "MemoryError", "OSError"}
           high_kind == raised.type \in {"RuntimeError", "ValueError", "KeyError"}
           high_keyword == ContainsAny(text, HighKeywords)
           medium_kind == raised.type \in {"AttributeError", "TypeError", "ImportError"}
       IN  /\ critical_keyword => result.value.severity = CRITICAL
           /\ (~critical_keyword /\ critical_kind) => result.value.severity = CRITICAL
           /\ (~critical_keyword /\ ~critical_kind /\ high_kind)
                => result.value.severity = HIGH
           /\ (~critical_keyword /\ ~critical_kind /\ ~high_kind /\ high_keyword)
                => result.value.severity = HIGH
           /\ ( ~critical_keyword /\ ~critical_kind /\ ~high_kind /\ ~high_keyword
                /\ medium_kind )
                => result.value.severity = MEDIUM
           /\ ( ~critical_keyword /\ ~critical_kind /\ ~high_kind /\ ~high_keyword
                /\ ~medium_kind )
                => result.value.severity = LOW

\* C10 witness: a ValueError whose message contains "corrupt" was assessed
\* as critical.
C10_Witness ==
  /\ result.op = "handle_error"
  /\ raised.type = "ValueError"
  /\ Contains(lower(Str(raised)), <<"c","o","r","r","u","p","t">>)
  /\ result.value.severity = CRITICAL

\* C11: what handle_error returns is decided by the severity alone:
\* critical gives the manual recovery and can_continue false; high gives the
\* assisted recovery with can_continue true, success false and the guidance
\* steps; medium and low give the automatic recovery with can_continue and
\* success true.  So can_continue is false iff the severity is critical, and
\* a KeyError with the message "missing config key" is high, assisted and
\* can continue.
C11_RecoveryBySeverity ==
  result.op = "handle_error"
    => LET value == result.value
           recovery == result.value.recovery
       IN  /\ value.severity \in {CRITICAL, HIGH, MEDIUM, LOW}
           /\ value.can_continue = recovery.can_continue
           /\ value.severity = CRITICAL
                => /\ recovery.strategy.type = "manual"
                   /\ value.can_continue = FALSE
           /\ value.severity = HIGH
                => /\ recovery.strategy.type = "assisted"
                   /\ value.can_continue = TRUE
                   /\ recovery.success = FALSE
                   /\ recovery.guidance
                        = <<"Retry with backoff", "Fallback options", "Guided resolution">>
           /\ value.severity \in {MEDIUM, LOW}
                => /\ recovery.strategy.type = "automatic"
                   /\ value.can_continue = TRUE
                   /\ recovery.success = TRUE
           /\ value.can_continue = FALSE <=> value.severity = CRITICAL
           /\ (raised.type = "KeyError" /\ raised.message = MissingConfigKey)
                => /\ value.severity = HIGH
                   /\ recovery.strategy.type = "assisted"
                   /\ value.can_continue = TRUE

\* C11 witness: a KeyError with the message "missing config key" was handled
\* as high, assisted, and able to continue.
C11_Witness ==
  /\ result.op = "handle_error"
  /\ raised.type = "KeyError"
  /\ raised.message = MissingConfigKey
  /\ result.value.severity = HIGH
  /\ result.value.recovery.strategy.type = "assisted"
  /\ result.value.can_continue = TRUE

\* C12 as stated: analyze_prompt returns as primary_category a category
\* whose final score is the highest of all categories and as confidence
\* that highest score, None and 0 when nothing matches, also when the
\* file-extension bonus or the category-name bonus was added.
C12_PrimaryHasHighestScore ==
  result.op = "analyze_prompt"
    => LET analysis == result.analysis
           scores == result.analysis.category_scores
       IN  /\ analysis.confidence = MaxOf(scores)
           /\ analysis.confidence = 0 <=> analysis.primary_category = None
           /\ analysis.primary_category # None
                => scores[analysis.primary_category] = analysis.confidence

\* C13 as stated: every formatter is idempotent: formatting the output of
\* format_output again, with the same format, returns it unchanged.
C13_FormattersIdempotent ==
  (result.op = "format_output_again" /\ arguments.format_type # None)
    => /\ result.raised = None
       /\ result.text = result.previous

\* C14 as stated: a string that contains a fence, formatted as code, is
\* returned unchanged rather than enclosed in a further fence.
C14_FencedNeverRewrapped ==
  ( /\ result.op = "format_output"
    /\ arguments.content.kind = "str"
    /\ Contains(arguments.content.text, Fence)
    /\ result.format = CODE )
    => /\ result.raised = None
       /\ result.text = arguments.content.text

\* The number of lines of a text, every line ended by a line feed.
CountLines(text) == Cardinality({i \in 1..Len(text) : text[i] = "\n"})

\* The content is a non-empty list of dicts that all have the keys of the
\* first, in the same order.
UniformRecords(content) ==
  /\ content.kind = "list"
  /\ content.items # <<>>
  /\ \A r \in 1..Len(content.items) :
       /\ content.items[r].kind = "dict"
       /\ Len(content.items[r].items) = Len(content.items[1].items)
       /\ \A i \in 1..Len(content.items[r].items) :
            content.items[r].items[i].key = content.items[1].items[i].key

\* No key and no value of the records is written with a line feed in it.
SingleLineCells(content) ==
  \A r \in 1..Len(content.items) : \A i \in 1..Len(content.items[r].items) :
    /\ ~Contains(content.items[r].items[i].key, <<"\n">>)
    /\ ~Contains(str(content.items[r].items[i].value), <<"\n">>)

\* C15 as stated: a non-empty list of n dict records with uniform keys,
\* formatted as a table, gives exactly min(n, 20) + 2 lines.
C15_TableLines ==
  ( /\ result.op = "format_output"
    /\ result.format = TABLE
    /\ UniformRecords(arguments.content) )
    => /\ result.raised = None
       /\ CountLines(result.text) = Min(Len(arguments.content.items), 20) + 2

\* Where no key and no value of the records is written with a line feed in
\* it, the table has exactly min(n, 20) + 2 lines, and the table of more
\* than 20 records is the table of the first 20.
TableLinesOfSingleLineCells ==
  ( /\ result.op = "format_output"
    /\ result.format = TABLE
    /\ UniformRecords(arguments.content)
    /\ SingleLineCells(arguments.content) )
    => /\ result.raised = None
       /\ CountLines(result.text) = Min(Len(arguments.content.items), 20) + 2
       /\ Len(arguments.content.items) > 20
            => result.text
                 = format_table(ListV(SubSeq(arguments.content.items, 1, 20)),
                                arguments.context).text

\* C16: without an explicit format, the format is the one the context's
\* request_type names (code_generation: CODE, documentation: MARKDOWN,
\* data_display: TABLE), else the one the content's shape gives (dict or
\* list: JSON, string containing a fence: CODE), else PLAIN; and the dict
\* {"a": 1, "b": 2} without format and context is written as JSON indented
\* by two spaces.
C16_FormatInference ==
  ( /\ result.op \in {"format_output", "format_output_again"}
    /\ arguments.format_type = None )
    => /\ result.format
            = IF arguments.context.request_type = "code_generation" THEN CODE
              ELSE IF arguments.context.request_type = "documentation" THEN MARKDOWN
              ELSE IF arguments.context.request_type = "data_display" THEN TABLE
              ELSE IF arguments.content.kind \in {"dict", "list"} THEN JSON
              ELSE IF /\ arguments.content.kind = "str"
                      /\ Contains(arguments.content.text, Fence) THEN CODE
              ELSE PLAIN
       /\ (arguments.content = DictAB /\ arguments.context = NoContext)
            => /\ result.format = JSON
               /\ result.raised = None
               /\ result.text = <<"{","\n"," "," ","\"","a","\"",":"," ","1",",","\n"," "," ","\"","b","\"",":"," ","2","\n","}">>

\* C16 witness: the dict {"a": 1, "b": 2} was formatted without format and
\* context, as JSON.
C16_Witness ==
  /\ result.op = "format_output"
  /\ arguments.format_type = None
  /\ arguments.content = DictAB
  /\ arguments.context = NoContext
  /\ result.format = JSON
  /\ Len(result.text) > 0

\* C17 as stated: for every request, dispatch returns without raising, and
\* what it returns carries the decision, handler_result, formatted_output
\* and operation_type, also when the operation type is None and when the
\* handler raised.
C17_DispatchAlwaysReturns ==
  result.op = "dispatch"
    => /\ result.raised = None
       /\ result.decision.classification.input = user_input
       /\ result.handler_result.kind = "dict"
       /\ result.operation_type = result.decision.classification.operation_type

\* C18: the request "Read app.py" is decided as a file operation of task
\* type read_file with the tools of the tool set file_operations and the
\* complexity low, and is orchestrated in the single-agent shape.
C18_ReadAppPy ==
  (Decided /\ user_input = ReadRequest)
    => /\ result.decision.classification.operation_type = "file_operation"
       /\ result.decision.task_type = "read_file"
       /\ TASK_TOOL_MAP[result.decision.task_type].tool_set = "file_operations"
       /\ result.decision.tools = <<"FileReadTool", "FileWriterTool", "DirectoryReadTool">>
       /\ result.decision.tools # <<>>
       /\ result.decision.execution_strategy.estimated_complexity = "low"
       /\ result.op = "orchestrate_task"
            => result.plan.orchestration_type = "single_agent"

\* C18 witness: "Read app.py" was orchestrated in the single-agent shape.
C18_Witness ==
  /\ result.op = "orchestrate_task"
  /\ user_input = ReadRequest
  /\ result.decision.task_type = "read_file"
  /\ result.plan.orchestration_type = "single_agent"

ExplicitGroups(text) ==
  Cardinality({p \in 1..Len(EXPLICIT_PATTERNS) : re_search(EXPLICIT_PATTERNS[p], text)})

ImplicitGroups(text) ==
  Cardinality({p \in 1..Len(IMPLICIT_PATTERNS) : re_search(IMPLICIT_PATTERNS[p], text)})

\* The confidence, in hundredths, the formula gives for e explicit and i
\* implicit groups.
ConfidenceOf(e, i) ==
  IF e > 0 THEN (IF 60 + 10 * e < 80 THEN 60 + 10 * e ELSE 80)
  ELSE IF i > 0 THEN (IF 40 + 10 * i < 60 THEN 40 + 10 * i ELSE 60)
  ELSE 50

\* C20: whenever the intent is neither EXPLICIT_COMMAND nor AMBIGUOUS, the
\* confidence is min(0.8, 0.6 + 0.1 e) if e > 0, else min(0.6, 0.4 + 0.1 i)
\* if i > 0, else 0.5, with e and i the numbers of explicit and implicit
\* pattern groups matching the text; both for the classifications
\* classify_input records and for direct calls of _calculate_confidence.
C20_ConfidenceFormula ==
  /\ \A c \in Classified :
       c.intent \notin {EXPLICIT_COMMAND, AMBIGUOUS}
         => c.confidence = ConfidenceOf(ExplicitGroups(Normalized(c.input)),
                                        ImplicitGroups(Normalized(c.input)))
  /\ ( /\ result.op = "calculate_confidence"
       /\ arguments.intent \notin {EXPLICIT_COMMAND, AMBIGUOUS} )
       => result.confidence = ConfidenceOf(ExplicitGroups(arguments.input_lower),
                                           ImplicitGroups(arguments.input_lower))

\* C20 witness: a direct call for a text matching one explicit and one
\* implicit group gave 0.7.
C20_Witness ==
  /\ result.op = "calculate_confidence"
  /\ arguments.intent \notin {EXPLICIT_COMMAND, AMBIGUOUS}
  /\ ExplicitGroups(arguments.input_lower) = 1
  /\ ImplicitGroups(arguments.input_lower) = 1
  /\ result.confidence = 70

\* The number of the three execution flags of a strategy that are true.
FlagsSet(strategy) ==
  Cardinality({f \in {"immediate_execution", "needs_confirmation", "needs_clarification"} :
                 strategy[f]})

\* C21: in every decision process_request returns exactly one of
\* immediate_execution (confidence >= 0.8), needs_confirmation
\* (0.5 <= confidence < 0.8) and needs_clarification (confidence < 0.5)
\* is true; the flag agrees with the routing value; requires_confirmation
\* is the negation of immediate_execution; and the classification's
\* requires_clarification (threshold 0.4) equals needs_clarification.
C21_ExactlyOneFlag ==
  Decided =>
    LET decision == result.decision
        strategy == decision.execution_strategy
        confidence == decision.classification.confidence
    IN  /\ FlagsSet(strategy) = 1
        /\ strategy.immediate_execution <=> confidence >= 80
        /\ strategy.needs_confirmation <=> (50 <= confidence /\ confidence < 80)
        /\ strategy.needs_clarification <=> confidence < 50
        /\ strategy.immediate_execution <=> decision.routing = "execute_immediately"
        /\ strategy.needs_confirmation <=> decision.routing = "confirm_with_preview"
        /\ strategy.needs_clarification <=> decision.routing = "present_options_menu"
        /\ decision.requires_confirmation <=> ~strategy.immediate_execution
        /\ decision.classification.requires_clarification <=> strategy.needs_clarification

\* C21 witness: a decision at confidence 0.5, between the two clarification
\* thresholds' neighbours, needs confirmation and no clarification.
C21_Witness ==
  /\ Decided
  /\ result.decision.classification.confidence = 50
  /\ result.decision.execution_strategy.needs_confirmation
  /\ ~result.decision.classification.requires_clarification
  /\ result.decision.routing = "confirm_with_preview"

\* The verb groups of each operation type in their priority, each with its
\* task type, and the task type when no verb is found.
VerbPriority ==
  [ file_operation |->
      [ groups |-> << [ verbs |-> << <<"r","e","a","d">>, <<"s","h","o","w">>, <<"v","i","e","w">> >>, task |-> "read_file" ],
                      [ verbs |-> << <<"w","r","i","t","e">>, <<"c","r","e","a","t","e">>, <<"m","a","k","e">> >>, task |-> "create_single_file" ],
                      [ verbs |-> << <<"e","d","i","t">>, <<"m","o","d","i","f","y">>, <<"u","p","d","a","t","e">> >>, task |-> "edit_single_file" ],
                      [ verbs |-> << <<"d","e","l","e","t","e">>, <<"r","e","m","o","v","e">> >>, task |-> "delete_files" ],
                      [ verbs |-> << <<"s","e","a","r","c","h">>, <<"f","i","n","d">> >>, task |-> "search_by_name" ] >>,
        otherwise |-> None ],
    code_operation |->
      [ groups |-> << [ verbs |-> << <<"c","r","e","a","t","e">>, <<"g","e","n","e","r","a","t","e">> >>, task |-> "generate_code" ],
                      [ verbs |-> << <<"a","n","a","l","y","z","e">>, <<"r","e","v","i","e","w">> >>, task |-> "analyze_code" ] >>,
        otherwise |-> None ],
    git_operation |->
      [ groups |-> << >>, otherwise |-> "git_operations" ],
    search |->
      [ groups |-> << [ verbs |-> << <<"g","r","e","p">>, <<"c","o","n","t","e","n","t">> >>, task |-> "search_by_content" ],
                      [ verbs |-> << <<"g","l","o","b">>, <<"p","a","t","t","e","r","n">> >>, task |-> "search_by_name" ] >>,
        otherwise |-> "complex_search" ],
    terminal |->
      [ groups |-> << [ verbs |-> << <<"i","n","s","t","a","l","l">>, <<"p","a","c","k","a","g","e">> >>, task |-> "install_packages" ],
                      [ verbs |-> << <<"t","e","s","t">> >>, task |-> "test_execution" ] >>,
        otherwise |-> "run_commands" ] ]

\* The groups of an operation type with a verb in the text.
GroupsFound(operation_type, text) ==
  { g \in 1..Len(VerbPriority[operation_type].groups) :
      ContainsAny(lower(text), VerbPriority[operation_type].groups[g].verbs) }

\* The task type of the first group with a verb in the text.
TaskByPriority(operation_type, text) ==
  IF GroupsFound(operation_type, text) = {}
    THEN VerbPriority[operation_type].otherwise
    ELSE VerbPriority[operation_type].groups[
           CHOOSE g \in GroupsFound(operation_type, text) :
             \A h \in GroupsFound(operation_type, text) : g <= h ].task

\* C22: get_task_type_from_operation dispatches on the operation type
\* first and then on the verbs in their fixed priority; it returns None
\* only when the operation type is None, or is file_operation or
\* code_operation with no verb in the text, and never for git_operation,
\* search or terminal.
C22_TaskTypeByPriority ==
  result.op = "get_task_type_from_operation"
    => /\ arguments.operation_type # None
            => result.task_type =
                 TaskByPriority(arguments.operation_type, arguments.intent)
       /\ result.task_type = None
            <=> \/ arguments.operation_type = None
                \/ /\ arguments.operation_type \in {"file_operation", "code_operation"}
                   /\ GroupsFound(arguments.operation_type, arguments.intent) = {}

\* C22 witness: a terminal text with a verb of both groups resolved to the
\* earlier group's task type.
C22_Witness ==
  /\ result.op = "get_task_type_from_operation"
  /\ arguments.operation_type = "terminal"
  /\ GroupsFound("terminal", arguments.intent) = {1, 2}
  /\ result.task_type = "install_packages"

\* C23: a multi-agent plan has exactly three tasks in the order plan,
\* execute, report: the plan task is the planner's, the execute task the
\* file reader's iff the task type is read_file and the code analyst's
\* otherwise, the report task the report writer's with both earlier tasks
\* as its context; a single-agent plan has exactly one task, whose
\* description is the request as given.
C23_PlanShape ==
  /\ result.op = "multi_agent_execution"
       => LET tasks == result.plan.tasks
          IN  /\ result.plan.orchestration_type = "multi_agent"
              /\ Len(tasks) = 3
              /\ startswith(tasks[1].description, <<"A","n","a","l","y","z","e"," ","t","h","e"," ","r","e","q","u","e","s","t",":"," ">>)
              /\ startswith(tasks[2].description, <<"E","x","e","c","u","t","e"," ","t","h","e"," ","p","l","a","n"," ","f","o","r",":"," ">>)
              /\ startswith(tasks[3].description, <<"C","r","e","a","t","e"," ","a"," ","c","o","m","p","r","e","h","e","n","s","i","v","e"," ","r","e","p","o","r","t"," ","f","o","r",":"," ">>)
              /\ \A t \in 1..3 : Contains(tasks[t].description, arguments.request)
              /\ tasks[1].agent = "planner"
              /\ tasks[2].agent = "file_reader" <=> arguments.task_type = "read_file"
              /\ tasks[2].agent = "code_analyst" <=> arguments.task_type # "read_file"
              /\ tasks[3].agent = "report_writer"
              /\ tasks[1].context = <<>>
              /\ tasks[2].context = <<>>
              /\ tasks[3].context = <<1, 2>>
  /\ result.op = "single_agent_execution"
       => /\ result.plan.orchestration_type = "single_agent"
          /\ Len(result.plan.tasks) = 1
          /\ result.plan.tasks[1].description = arguments.request

\* C23 witness: a multi-agent plan for the task type read_file gave its
\* execute task to the file reader.
C23_Witness ==
  /\ result.op = "multi_agent_execution"
  /\ arguments.task_type = "read_file"
  /\ result.plan.tasks[2].agent = "file_reader"
  /\ result.plan.tasks[3].context = <<1, 2>>

\* How often a call occurs among the calls of the request.
Calls(name) ==
  Cardinality({ i \in 1..Len(result.calls) : result.calls[i] = name })

\* C24 as stated: an exception of the decision engine or the orchestrator
\* is passed to handle_error exactly once; if can_continue is true exactly
\* one fallback crew is built and run, otherwise no crew is run and an
\* error message is shown; the handler runs at most once, at most one
\* fallback is attempted and at most one crew is kicked off.
C24_FallbackBuiltAndRun ==
  result.op = "process_user_request"
    => /\ raised # NoError => Calls("handle_error") = 1
       /\ (raised # NoError /\ ErrorResult(raised).can_continue)
            => /\ result.crew = "fallback"
               /\ Calls("Crew") = 1
               /\ Calls("kickoff") = 1
       /\ (raised # NoError /\ ~ErrorResult(raised).can_continue)
            => /\ Calls("kickoff") = 0
               /\ result.failed
               /\ result.content = error_message(raised)
       /\ Calls("handle_error") <= 1
       /\ Calls("create_test_agent") <= 1
       /\ Calls("kickoff") <= 1

\* C24, amended: an exception of the decision engine or the orchestrator
\* is passed to handle_error exactly once; if can_continue is true exactly
\* one fallback is attempted, and its crew is built and kicked off once
\* unless building it raises, in which case no crew is run and an error
\* message is shown; if can_continue is false no crew is run and
\* the message of the first exception is shown; the handler runs at most
\* once, at most one fallback is attempted and at most one crew is kicked
\* off.
C24_FallbackAttemptedOnce ==
  result.op = "process_user_request"
    => /\ raised # NoError => Calls("handle_error") = 1
       /\ raised = NoError => Calls("handle_error") = 0
       /\ (raised # NoError /\ ErrorResult(raised).can_continue)
            => /\ Calls("create_test_agent") = 1
               /\ \/ /\ result.crew = "fallback"
                     /\ Calls("Crew") = 1
                     /\ Calls("kickoff") = 1
                  \/ /\ result.crew = "none"
                     /\ Calls("Crew") = 0
                     /\ Calls("kickoff") = 0
                     /\ result.failed
       /\ (raised # NoError /\ ~ErrorResult(raised).can_continue)
            => /\ Calls("create_test_agent") = 0
               /\ Calls("kickoff") = 0
               /\ result.failed
               /\ result.content = error_message(raised)
       /\ Calls("handle_error") <= 1
       /\ Calls("create_test_agent") <= 1
       /\ Calls("kickoff") <= 1
       /\ Len(error_history) = Calls("handle_error")

\* C24 witness: the orchestrator raised, the handler let the request
\* continue, and the one fallback crew was built and kicked off.
C24_Witness ==
  /\ result.op = "process_user_request"
  /\ raised # NoError
  /\ ErrorResult(raised).can_continue
  /\ Calls("orchestrate_task") = 1
  /\ Calls("handle_error") = 1
  /\ result.crew = "fallback"
  /\ Calls("kickoff") = 1

\* C25: the model a request is executed with is the model selected in the
\* sidebar: whatever keys are set and whichever model is selected,
\* process_user_request builds the wrapper with st.session_state.current_model.
C25_SelectedModelIsUsed ==
  (result.op = "process_user_request" /\ result.model_name # None)
    => result.model_name = session_state.current_model

\* One sequence is the other with one record added at its end.
OneAppended(before, after) ==
  Len(after) = Len(before) + 1 /\ SubSeq(after, 1, Len(before)) = before

\* C26: the histories are append-only. Every completed classify_input call
\* (alone, or within process_request or dispatch) adds exactly its
\* classification at the end of command_history, every completed
\* handle_error call (alone or within dispatch) exactly its record at the
\* end of error_history; the records already there keep their content and
\* their order, and handle_cascading_failure leaves both histories as
\* they are.
C26_AppendOnly ==
  [][ /\ result'.op \in {"classify_input", "process_request"}
           => /\ OneAppended(command_history, command_history')
              /\ command_history'[Len(command_history')] = Classification(user_input')
              /\ error_history' = error_history
      /\ result'.op = "handle_error"
           => /\ OneAppended(error_history, error_history')
              /\ error_history'[Len(error_history')].error = Str(raised')
              /\ error_history'[Len(error_history')].type = raised'.type
              /\ command_history' = command_history
      /\ result'.op = "handle_cascading_failure"
           => /\ error_history' = error_history
              /\ command_history' = command_history
      /\ result'.op = "dispatch"
           => /\ OneAppended(command_history, command_history')
              /\ command_history'[Len(command_history')] = Classification(user_input')
              /\ IF raised' = NoError
                   THEN error_history' = error_history
                   ELSE /\ OneAppended(error_history, error_history')
                        /\ error_history'[Len(error_history')].error = Str(raised')
    ]_vars

\* C26 witness: two requests were classified in their order, an error was
\* recorded, and handle_cascading_failure has returned.
C26_Witness ==
  /\ result.op = "handle_cascading_failure"
  /\ Len(command_history) = 2
  /\ command_history[1].input = ReadRequest
  /\ command_history[2].input = AnalyzeRequest
  /\ Len(error_history) >= 1

\* C27: every classification classify_input produces has a confidence of
\* 0.3, 0.5, 0.6 or 1.0; a text matching an explicit pattern is always an
\* EXPLICIT_COMMAND of confidence 1.0, so the branch min(0.8, 0.6 + 0.1 e)
\* is never taken; and the routing is execute_immediately iff the intent
\* is EXPLICIT_COMMAND.
C27_ConfidenceValues ==
  \A c \in Classified :
    /\ c.confidence \in {30, 50, 60, 100}
    /\ 0 <= c.confidence /\ c.confidence <= 100
    /\ ExplicitGroups(Normalized(c.input)) > 0
         => (c.intent = EXPLICIT_COMMAND /\ c.confidence = 100)
    /\ c.intent \notin {EXPLICIT_COMMAND, AMBIGUOUS}
         => ExplicitGroups(Normalized(c.input)) = 0
    /\ c.routing = "execute_immediately" <=> c.intent = EXPLICIT_COMMAND

\* C27 witness: a text matching three implicit pattern groups and no
\* explicit one was classified with the confidence 0.6.
C27_Witness ==
  \E c \in Classified :
    /\ c.intent = IMPLICIT_REQUEST
    /\ ImplicitGroups(Normalized(c.input)) = 3
    /\ c.confidence = 60
    /\ c.routing = "confirm_with_preview"

\* C28: in every multi-agent plan orchestrate_task builds from a decision
\* of the decision engine the execute task is the code analyst's: the task
\* type read_file arises only with the operation type file_operation, for
\* which the complexity is low and the plan single-agent, so the file
\* reader is never given the execute task.
C28_ExecuteIsCodeAnalyst ==
  result.op = "orchestrate_task"
    => /\ result.plan.orchestration_type = "multi_agent"
            => /\ result.plan.tasks[2].stage = "execute"
               /\ result.plan.tasks[2].agent = "code_analyst"
               /\ result.decision.task_type # "read_file"
       /\ result.decision.task_type = "read_file"
            => /\ result.decision.classification.operation_type = "file_operation"
               /\ result.decision.execution_strategy.estimated_complexity = "low"
               /\ result.plan.orchestration_type = "single_agent"
       /\ \A t \in 1..Len(result.plan.tasks) : result.plan.tasks[t].agent # "file_reader"

\* C28 witness: a file operation without task type, given more than three
\* tools, was orchestrated with several agents and its execute task given
\* to the code analyst.
C28_Witness ==
  /\ result.op = "orchestrate_task"
  /\ result.decision.classification.operation_type = "file_operation"
  /\ result.plan.orchestration_type = "multi_agent"
  /\ result.plan.tasks[2].agent = "code_analyst"

\* The commands given to subprocess.run, as texts: without the prefix of
\* the Windows shell, their words joined by one space.
CommandsRun ==
  { Concat(IF Len(executed[i]) >= 2 /\ SubSeq(executed[i], 1, 2) = << <<"c","m","d">>, <<"/","c">> >>
             THEN SubSeq(executed[i], 3, Len(executed[i]))
             ELSE executed[i],
           <<" ">>) : i \in 1..Len(executed) }

\* A text holds a dangerous pattern.
IsDangerous(text) ==
  \E p \in 1..Len(DANGEROUS_PATTERNS) : Contains(lower(text), DANGEROUS_PATTERNS[p])

\* A text is flagged as destructive or as modifying the system.
IsFlagged(text) ==
  \/ \E d \in 1..Len(DESTRUCTIVE_COMMANDS) :
       \/ startswith(lower(text), DESTRUCTIVE_COMMANDS[d])
       \/ Contains(lower(text), <<" ">> \o DESTRUCTIVE_COMMANDS[d] \o <<" ">>)
  \/ \E m \in 1..Len(system_modifiers) : Contains(lower(text), system_modifiers[m])

\* C29: execute_command never runs a command holding a dangerous pattern,
\* confirmed or not; it runs a command flagged as destructive or as
\* modifying the system only when confirmed; and dispatch, which never
\* confirms, runs no flagged command.
C29_NoDangerousCommandRuns ==
  \A command \in CommandsRun :
    /\ command = user_input
    /\ ~IsDangerous(command)
    /\ IsFlagged(command)
         => (arguments.function = "execute_command" /\ arguments.confirmed)
    /\ arguments.function = "dispatch" => ~IsFlagged(command)

\* C29 witness: a flagged command without a dangerous pattern was run once
\* confirmed.
C29_Witness ==
  /\ result.op = "execute_command"
  /\ arguments.confirmed
  /\ IsFlagged(user_input)
  /\ ~IsDangerous(user_input)
  /\ user_input \in CommandsRun

\* The resolved path of the call starts with a system path.
IsSystemPath(path) ==
  \E i \in 1..Len(system_paths) : startswith(path, system_paths[i])

ResolvedPath == resolve_path(arguments.file_path, arguments.cwd)

\* C30: a call of delete_file with confirmed False on a path that resolves
\* under a system path returns 'Deletion blocked - critical file' with
\* requires_confirmation true and leaves the file in place, whatever else
\* the path contains.
C30_SystemFilesKept ==
  (/\ result.op = "delete_file"
   /\ ~arguments.confirmed
   /\ IsSystemPath(ResolvedPath))
    => /\ Get(result.value, <<"e","r","r","o","r">>, NoneV) = StrV(<<"D","e","l","e","t","i","o","n"," ","b","l","o","c","k","e","d"," ","-"," ","c","r","i","t","i","c","a","l"," ","f","i","l","e">>)
       /\ Get(result.value, <<"r","e","q","u","i","r","e","s","_","c","o","n","f","i","r","m","a","t","i","o","n">>, NoneV) = BoolV(TRUE)
       /\ result.existed => ResolvedPath \in files

====
